---------------------------- MODULE Spec2Model ----------------------------
(***************************************************************************)
(* A model of the ranking and search utilities of the blog application:    *)
(* post similarity and related-posts selection (relatedPosts utilities)    *)
(* and the search engine (src/utils/searchUtils.ts).                       *)
(*                                                                         *)
(* Scores are JavaScript numbers.  They are modelled as IEEE-754 binary64  *)
(* values with round-to-nearest-even, so that 0.4 + 0.3 + 0.2 + 0.1 is     *)
(* what the program computes and not the rational 1.                       *)
(***************************************************************************)
EXTENDS Integers, Sequences, FiniteSets, TLC

(***************************************************************************)
(* Natural numbers below 2^126: tuples of Limbs limbs in base 2^14, the    *)
(* least significant first.  They carry the 53-bit significands of the     *)
(* JavaScript numbers and their 106-bit products.                          *)
(***************************************************************************)
LimbBits == 14

LimbBase == 16384

Limbs == 9

BZero == <<0, 0, 0, 0, 0, 0, 0, 0, 0>>

BOne == <<1, 0, 0, 0, 0, 0, 0, 0, 0>>

\* n < 2^31 as limbs
BFromNat(n) ==
  <<n % LimbBase, (n \div LimbBase) % LimbBase, n \div (LimbBase * LimbBase),
    0, 0, 0, 0, 0, 0>>

BAdd(a, b) ==
  LET carry[i \in 0..Limbs] ==
        IF i = 0 THEN 0 ELSE (a[i] + b[i] + carry[i - 1]) \div LimbBase
  IN  SubSeq([i \in 1..Limbs |-> ((a[i] + b[i] + carry[i - 1]) % LimbBase)], 1, Limbs)

\* a - b for a >= b
BSub(a, b) ==
  LET borrow[i \in 0..Limbs] ==
        IF i = 0 THEN 0
        ELSE IF a[i] - b[i] - borrow[i - 1] < 0 THEN 1 ELSE 0
  IN  SubSeq([i \in 1..Limbs |-> ((a[i] - b[i] - borrow[i - 1] + LimbBase) % LimbBase)],
             1, Limbs)

\* a * b for a, b < 2^56 (four limbs each)
BMul(a, b) ==
  LET column[k \in 1..Limbs] ==
          (a[1] * (IF k <= 4 THEN b[k] ELSE 0))
        + (a[2] * (IF k >= 2 /\ k <= 5 THEN b[k - 1] ELSE 0))
        + (a[3] * (IF k >= 3 /\ k <= 6 THEN b[k - 2] ELSE 0))
        + (a[4] * (IF k >= 4 /\ k <= 7 THEN b[k - 3] ELSE 0))
      carry[k \in 0..Limbs] ==
        IF k = 0 THEN 0 ELSE (column[k] + carry[k - 1]) \div LimbBase
  IN  SubSeq([k \in 1..Limbs |-> (column[k] + carry[k - 1]) % LimbBase], 1, Limbs)

\* a * 2^n, which must stay below 2^126
BShl(a, n) ==
  LET k == n \div LimbBits
      r == n % LimbBits
  IN  SubSeq([i \in 1..Limbs |->
                (((IF i - k >= 1 THEN a[i - k] ELSE 0) * 2^r) % LimbBase)
              + (((IF i - k - 1 >= 1 THEN a[i - k - 1] ELSE 0) * 2^r) \div LimbBase)],
             1, Limbs)

\* floor(a / 2^n)
BShr(a, n) ==
  LET k == n \div LimbBits
      r == n % LimbBits
  IN  SubSeq([i \in 1..Limbs |->
                ((IF i + k <= Limbs THEN a[i + k] ELSE 0) \div (2^r))
              + (((IF i + k + 1 <= Limbs THEN a[i + k + 1] ELSE 0) % (2^r))
                  * (2^(LimbBits - r)))],
             1, Limbs)

\* <<a div d, a mod d>> for 0 < d < 2^14
BDivSmall(a, d) ==
  LET rem[i \in 1..(Limbs + 1)] ==
        IF i = Limbs + 1 THEN 0 ELSE ((rem[i + 1] * LimbBase) + a[i]) % d
  IN  <<SubSeq([i \in 1..Limbs |-> ((rem[i + 1] * LimbBase) + a[i]) \div d], 1, Limbs),
        rem[1]>>

\* the number of bits of a
BBitLen(a) ==
  LET used == {i \in 1..Limbs : a[i] # 0}
      top == CHOOSE i \in used : \A j \in used : j <= i
  IN  IF used = {} THEN 0
      ELSE ((top - 1) * LimbBits) + Cardinality({j \in 0..(LimbBits - 1) : (2^j) <= a[top]})

BLess(a, b) ==
  \E i \in 1..Limbs : a[i] < b[i] /\ \A j \in (i + 1)..Limbs : a[j] = b[j]

(***************************************************************************)
(* JavaScript numbers that are zero or positive and normal: <<m, e>> is    *)
(* m * 2^e with m a 53-bit significand (2^52 <= m < 2^53), zero is         *)
(* <<0, 0>>.  Every arithmetic result is rounded to nearest, ties to even. *)
(***************************************************************************)
SigBits == 53

FZero == <<BZero, 0>>

\* r * 2^e for a significand r that rounding up may have brought to 2^53
FRenormalise(r, e) ==
  IF BBitLen(r) > SigBits THEN <<BShr(r, 1), e + 1>> ELSE <<r, e>>

\* m = q * 2^sh + the sh bits dropped: q goes up when they, with the sticky
\* bit behind them, are more than half a unit, or half a unit and q is odd
FRoundOff(m, q, e, sticky, sh) ==
  LET guardLimb == (sh - 1) \div LimbBits + 1
      guardBit == (sh - 1) % LimbBits
      guard == (m[guardLimb] \div (2^guardBit)) % 2 = 1
      rest == \/ sticky
              \/ m[guardLimb] % (2^guardBit) # 0
              \/ \E i \in 1..(guardLimb - 1) : m[i] # 0
  IN  FRenormalise(IF guard /\ (rest \/ q[1] % 2 = 1) THEN BAdd(q, BOne) ELSE q,
                   e + sh)

\* FRound for a number m of len bits
FRoundBits(m, e, sticky, len) ==
  IF len = 0 THEN FZero
  ELSE IF len <= SigBits THEN <<BShl(m, SigBits - len), e - (SigBits - len)>>
  ELSE FRoundOff(m, BShr(m, len - SigBits), e, sticky, len - SigBits)

\* (m + s) * 2^e rounded, where sticky says that 0 < s < 1 and else s = 0
FRound(m, e, sticky) == FRoundBits(m, e, sticky, BBitLen(m))

\* the rounded quotient, from <<floor(n * 2^70 / d), remainder>>
FRoundQuotient(qr) == FRound(qr[1], 0 - 5 * LimbBits, qr[2] # 0)

\* the division n / d of two small integers, 0 < d < 2^14
FDivInt(n, d) ==
  IF n = 0 THEN FZero
  ELSE FRoundQuotient(BDivSmall(BShl(BFromNat(n), 5 * LimbBits), d))

FInt(n) == FDivInt(n, 1)

FOne == FInt(1)

FMul(a, b) ==
  IF a[1] = BZero \/ b[1] = BZero THEN FZero
  ELSE FRound(BMul(a[1], b[1]), a[2] + b[2], FALSE)

\* exponents further apart than this leave the larger operand unchanged
MaxAlign == 60

FAdd(a, b) ==
  IF a[1] = BZero \/ b[2] - a[2] > MaxAlign THEN b
  ELSE IF b[1] = BZero \/ a[2] - b[2] > MaxAlign THEN a
  ELSE FRound(IF a[2] < b[2] THEN BAdd(a[1], BShl(b[1], b[2] - a[2]))
                             ELSE BAdd(BShl(a[1], a[2] - b[2]), b[1]),
              IF a[2] < b[2] THEN a[2] ELSE b[2],
              FALSE)

FLess(a, b) ==
  IF b[1] = BZero THEN FALSE
  ELSE IF a[1] = BZero THEN TRUE
  ELSE IF a[2] # b[2] THEN a[2] < b[2]
  ELSE BLess(a[1], b[1])

FLeq(a, b) == ~FLess(b, a)

\* a - b for a >= b
FSub(a, b) ==
  IF b[1] = BZero \/ a[2] - b[2] > MaxAlign THEN a
  ELSE FRound(IF a[2] < b[2] THEN BSub(a[1], BShl(b[1], b[2] - a[2]))
                             ELSE BSub(BShl(a[1], a[2] - b[2]), b[1]),
              IF a[2] < b[2] THEN a[2] ELSE b[2],
              FALSE)

(***************************************************************************)
(* Strings are sequences of one-character strings.                         *)
(***************************************************************************)
UpperCase == <<"A","B","C","D","E","F","G","H","I","J","K","L","M",
               "N","O","P","Q","R","S","T","U","V","W","X","Y","Z">>

LowerCase == <<"a","b","c","d","e","f","g","h","i","j","k","l","m",
               "n","o","p","q","r","s","t","u","v","w","x","y","z">>

Digits == {"0","1","2","3","4","5","6","7","8","9"}

Range(s) == {s[i] : i \in DOMAIN s}

UpperCaseChars == Range(UpperCase)

WordChars == UpperCaseChars \cup Range(LowerCase) \cup Digits \cup {"_"}

\* the characters the regular expression class \s matches, of those used here
SpaceChars == {" ", "\t", "\n"}

IsSpace(c) == c \in SpaceChars

\* the regular expression class \w
IsWordChar(c) == c \in WordChars

LowerChar(c) ==
  IF c \in UpperCaseChars
    THEN LowerCase[CHOOSE i \in DOMAIN UpperCase : UpperCase[i] = c]
    ELSE c

\* String.prototype.toLowerCase
toLowerCase(s) == [i \in DOMAIN s |-> LowerChar(s[i])]

\* the first position from i on that holds no white space
RECURSIVE SkipSpace(_, _)
SkipSpace(s, i) ==
  IF i <= Len(s) /\ IsSpace(s[i]) THEN SkipSpace(s, i + 1) ELSE i

RECURSIVE SplitFrom(_, _, _)
SplitFrom(s, i, cur) ==
  IF i > Len(s) THEN <<cur>>
  ELSE IF IsSpace(s[i]) THEN <<cur>> \o SplitFrom(s, SkipSpace(s, i), <<>>)
  ELSE SplitFrom(s, i + 1, Append(cur, s[i]))

\* s.split(/\s+/)
SplitSpaces(s) == SplitFrom(s, 1, <<>>)

\* Array.prototype.includes
Includes(arr, x) == \E i \in DOMAIN arr : arr[i] = x

\* String.prototype.includes
StrIncludes(s, sub) ==
  \E i \in 0..(Len(s) - Len(sub)) : SubSeq(s, i + 1, i + Len(sub)) = sub

RECURSIVE Join(_, _)
Join(arr, sep) ==
  IF arr = <<>> THEN <<>>
  ELSE IF Len(arr) = 1 THEN arr[1]
  ELSE arr[1] \o sep \o Join(Tail(arr), sep)

\* Array.prototype.slice(0, n) for n >= 0
Slice0(arr, n) == SubSeq(arr, 1, IF n < Len(arr) THEN n ELSE Len(arr))

(***************************************************************************)
(* Posts (BlogPost): the fields the utilities read.                        *)
(***************************************************************************)
MinutesPerDay == 1440

\* new Date(publishedAt).getTime(), in minutes: publishedAt is an ISO date
\* with an optional time of day, a date alone standing for midnight
DateGetTime(iso) == iso.day * MinutesPerDay + (IF iso.hasTime THEN iso.minute ELSE 0)

CategorySlugs(post) == [i \in DOMAIN post.categories |-> post.categories[i].slug]

(***************************************************************************)
(* Similarity scorer                                                       *)
(***************************************************************************)
DEFAULT_RELATED_POSTS_CONFIG ==
  [maxPosts |-> 3, algorithm |-> "mixed", excludeCurrentPost |-> TRUE]

calculateCategorySimilarity(postA, postB) ==
  LET categoriesA == CategorySlugs(postA)
      categoriesB == CategorySlugs(postB)
      commonCategories == SelectSeq(categoriesA, LAMBDA cat : Includes(categoriesB, cat))
      totalCategories == Cardinality(Range(categoriesA \o categoriesB))
  IN  IF totalCategories > 0
        THEN FDivInt(Len(commonCategories), totalCategories)
        ELSE FZero

\* a variant that counts the tags of both posts, the shared ones twice
calculateTagSimilarityCountingTwice(postA, postB) ==
  LET tagsA == postA.tags
      tagsB == postB.tags
      commonTags == SelectSeq(tagsA, LAMBDA tag : Includes(tagsB, tag))
      totalTags == Len(tagsA) + Len(tagsB)
  IN  IF totalTags > 0 THEN FDivInt(Len(commonTags), totalTags) ELSE FZero

calculateTagSimilarity(postA, postB) ==
  LET tagsA == postA.tags
      tagsB == postB.tags
      commonTags == SelectSeq(tagsA, LAMBDA tag : Includes(tagsB, tag))
      totalTags == Cardinality(Range(tagsA \o tagsB))
  IN  IF totalTags > 0 THEN FDivInt(Len(commonTags), totalTags) ELSE FZero

\* the words of title and excerpt that are longer than 3 characters
ContentWords(post) ==
  SelectSeq(SplitSpaces(toLowerCase(post.title \o <<" ">> \o post.excerpt)),
            LAMBDA word : Len(word) > 3)

calculateContentSimilarity(postA, postB) ==
  LET wordsA == ContentWords(postA)
      wordsB == ContentWords(postB)
      commonWords == SelectSeq(wordsA, LAMBDA word : Includes(wordsB, word))
      totalWords == Cardinality(Range(wordsA \o wordsB))
  IN  IF totalWords > 0 THEN FDivInt(Len(commonWords), totalWords) ELSE FZero

calculateAuthorSimilarity(postA, postB) ==
  IF postA.author.slug = postB.author.slug THEN FOne ELSE FZero

\* the weights of the four factors
CategoryWeight == FDivInt(4, 10)
TagWeight == FDivInt(3, 10)
ContentWeight == FDivInt(2, 10)
AuthorWeight == FDivInt(1, 10)

\* a variant that scores by the factor the algorithm option names
calculatePostSimilarityByAlgorithm(postA, postB, algorithm) ==
  IF algorithm = "category" THEN calculateCategorySimilarity(postA, postB)
  ELSE IF algorithm = "tags" THEN calculateTagSimilarity(postA, postB)
  ELSE FAdd(FAdd(FAdd(FMul(calculateCategorySimilarity(postA, postB), CategoryWeight),
                      FMul(calculateTagSimilarity(postA, postB), TagWeight)),
                 FMul(calculateContentSimilarity(postA, postB), ContentWeight)),
            FMul(calculateAuthorSimilarity(postA, postB), AuthorWeight))

\* the weighted sum of the four factors; the algorithm option is not read
calculatePostSimilarity(postA, postB, algorithm) ==
  LET s1 == FAdd(FZero, FMul(calculateCategorySimilarity(postA, postB), CategoryWeight))
      s2 == FAdd(s1, FMul(calculateTagSimilarity(postA, postB), TagWeight))
      s3 == FAdd(s2, FMul(calculateContentSimilarity(postA, postB), ContentWeight))
  IN  FAdd(s3, FMul(calculateAuthorSimilarity(postA, postB), AuthorWeight))

(***************************************************************************)
(* Array.prototype.sort: a stable sort.  After(a, b) is compare(a, b) > 0, *)
(* "a comes after b".  Each element is put behind the elements already     *)
(* placed that do not come after it.                                       *)
(***************************************************************************)
InsertSorted(sorted, x, After(_, _)) ==
  LET later == {i \in DOMAIN sorted : After(sorted[i], x)}
      pos == IF later = {} THEN Len(sorted) + 1
             ELSE CHOOSE i \in later : \A j \in later : i <= j
  IN  SubSeq(sorted, 1, pos - 1) \o <<x>> \o SubSeq(sorted, pos, Len(sorted))

StableSort(arr, After(_, _)) ==
  LET placed[k \in 0..Len(arr)] ==
        IF k = 0 THEN <<>> ELSE InsertSorted(placed[k - 1], arr[k], After)
  IN  placed[Len(arr)]

\* Array.prototype.map
Map(arr, F(_)) ==
  LET mapped[k \in 0..Len(arr)] ==
        IF k = 0 THEN <<>> ELSE Append(mapped[k - 1], F(arr[k]))
  IN  mapped[Len(arr)]

Posts(items) == Map(items, LAMBDA item : item.post)

\* { ...defaults, ...given }
Merge(defaults, given) ==
  [k \in DOMAIN defaults \cup DOMAIN given |->
     IF k \in DOMAIN given THEN given[k] ELSE defaults[k]]

(***************************************************************************)
(* Related-posts selector                                                  *)
(***************************************************************************)
\* a variant whose sort puts a candidate before the earlier ones of equal score
findRelatedPostsUnstable(currentPost, allPosts, config) ==
  LET mergedConfig == Merge(DEFAULT_RELATED_POSTS_CONFIG, config)
      candidatePosts ==
        IF mergedConfig.excludeCurrentPost
          THEN SelectSeq(allPosts, LAMBDA post : post.id # currentPost.id)
          ELSE allPosts
      scoredPosts ==
        Map(candidatePosts, LAMBDA post :
              [post |-> post,
               score |-> calculatePostSimilarity(currentPost, post, mergedConfig.algorithm)])
      sorted == StableSort(scoredPosts, LAMBDA a, b : FLeq(a.score, b.score))
  IN  Posts(Slice0(sorted, mergedConfig.maxPosts))

findRelatedPosts(currentPost, allPosts, config) ==
  LET mergedConfig == Merge(DEFAULT_RELATED_POSTS_CONFIG, config)
      candidatePosts ==
        IF mergedConfig.excludeCurrentPost
          THEN SelectSeq(allPosts, LAMBDA post : post.id # currentPost.id)
          ELSE allPosts
      scoredPosts ==
        Map(candidatePosts, LAMBDA post :
              [post |-> post,
               score |-> calculatePostSimilarity(currentPost, post, mergedConfig.algorithm)])
      sorted == StableSort(scoredPosts, LAMBDA a, b : FLess(a.score, b.score))
  IN  Posts(Slice0(sorted, mergedConfig.maxPosts))

findRelatedByCategory(currentPost, allPosts, maxPosts) ==
  LET currentCategories == CategorySlugs(currentPost)
      others == SelectSeq(allPosts, LAMBDA post : post.id # currentPost.id)
      sharing == SelectSeq(others, LAMBDA post :
                   \E i \in DOMAIN post.categories :
                      Includes(currentCategories, post.categories[i].slug))
      sorted == StableSort(sharing, LAMBDA a, b :
                   DateGetTime(b.publishedAt) - DateGetTime(a.publishedAt) > 0)
  IN  Slice0(sorted, maxPosts)

findRelatedByTags(currentPost, allPosts, maxPosts) ==
  LET currentTags == currentPost.tags
      others == SelectSeq(allPosts, LAMBDA post : post.id # currentPost.id)
      counted == Map(others, LAMBDA post :
                   [post |-> post,
                    commonTags |-> Len(SelectSeq(post.tags,
                                     LAMBDA tag : Includes(currentTags, tag)))])
      sharing == SelectSeq(counted, LAMBDA item : item.commonTags > 0)
      sorted == StableSort(sharing, LAMBDA a, b : b.commonTags - a.commonTags > 0)
  IN  Slice0(Posts(sorted), maxPosts)

\* a variant that excludes no post
findRecentPostsOfAll(allPosts, excludePostId, maxPosts) ==
  Slice0(StableSort(allPosts, LAMBDA a, b :
           DateGetTime(b.publishedAt) - DateGetTime(a.publishedAt) > 0),
         maxPosts)

findRecentPosts(allPosts, excludePostId, maxPosts) ==
  LET others == SelectSeq(allPosts, LAMBDA post :
                  excludePostId = "" \/ post.id # excludePostId)
      sorted == StableSort(others, LAMBDA a, b :
                  DateGetTime(b.publishedAt) - DateGetTime(a.publishedAt) > 0)
  IN  Slice0(sorted, maxPosts)

\* a variant that appends what a fallback stage found as it is
MergeKeepingDuplicates(relatedPosts, found) == relatedPosts \o found

\* [...relatedPosts, ...found.filter(post => !existingIds.has(post.id))]
MergeWithoutDuplicates(relatedPosts, found) ==
  LET existingIds == {relatedPosts[i].id : i \in DOMAIN relatedPosts}
  IN  relatedPosts \o SelectSeq(found, LAMBDA post : post.id \notin existingIds)

\* "If not enough posts found, try category-based"
FillByCategory(currentPost, allPosts, maxPosts, relatedPosts) ==
  IF Len(relatedPosts) < maxPosts
    THEN MergeWithoutDuplicates(relatedPosts,
           findRelatedByCategory(currentPost, allPosts, maxPosts - Len(relatedPosts)))
    ELSE relatedPosts

\* "If still not enough, try tag-based"
FillByTags(currentPost, allPosts, maxPosts, relatedPosts) ==
  IF Len(relatedPosts) < maxPosts
    THEN MergeWithoutDuplicates(relatedPosts,
           findRelatedByTags(currentPost, allPosts, maxPosts - Len(relatedPosts)))
    ELSE relatedPosts

\* "If still not enough, fill with recent posts"
FillByRecent(currentPost, allPosts, maxPosts, relatedPosts) ==
  IF Len(relatedPosts) < maxPosts
    THEN MergeWithoutDuplicates(relatedPosts,
           findRecentPosts(allPosts, currentPost.id, maxPosts - Len(relatedPosts)))
    ELSE relatedPosts

getRelatedPostsWithFallback(currentPost, allPosts, config) ==
  LET mergedConfig == Merge(DEFAULT_RELATED_POSTS_CONFIG, config)
  IN  Slice0(
        FillByRecent(currentPost, allPosts, mergedConfig.maxPosts,
          FillByTags(currentPost, allPosts, mergedConfig.maxPosts,
            FillByCategory(currentPost, allPosts, mergedConfig.maxPosts,
              findRelatedPosts(currentPost, allPosts, mergedConfig)))),
        mergedConfig.maxPosts)

(***************************************************************************)
(* Search engine                                                           *)
(***************************************************************************)
Threshold06 == FDivInt(6, 10)

DEFAULT_SEARCH_FIELDS == <<"title", "excerpt", "content", "tags">>

DEFAULT_SEARCH_OPTIONS ==
  [fields |-> DEFAULT_SEARCH_FIELDS, minQueryLength |-> 2, fuzzy |-> TRUE,
   fuzzyThreshold |-> Threshold06, limit |-> 10, includeContent |-> FALSE]

\* the least of three numbers
Min3(x, y, z) ==
  IF x <= y /\ x <= z THEN x ELSE IF y <= z THEN y ELSE z

\* row[j] is matrix[j], its cell i at position i + 1; a row is as wide as
\* the row above it and is filled from the left
levenshteinDistance(a, b) ==
  LET row[j \in 0..Len(b)] ==
        IF j = 0 THEN [n \in 1..(Len(a) + 1) |-> n - 1]
        ELSE LET up == row[j - 1]
                 cells[n \in 1..Len(up)] ==
                   IF n = 1 THEN <<j>>
                   ELSE LET left == cells[n - 1]
                        IN  Append(left,
                              Min3(left[n - 1] + 1,
                                   up[n] + 1,
                                   up[n - 1] + (IF a[n - 1] = b[j] THEN 0 ELSE 1)))
             IN  cells[Len(up)]
  IN  row[Len(b)][Len(a) + 1]

similarity(a, b) ==
  IF a = b THEN FOne
  ELSE IF Len(a) = 0 \/ Len(b) = 0 THEN FZero
  ELSE FSub(FOne,
            FDivInt(levenshteinDistance(toLowerCase(a), toLowerCase(b)),
                    IF Len(a) > Len(b) THEN Len(a) ELSE Len(b)))

\* text.toLowerCase().replace(/[^\w\s]/g, ' ').split(/\s+/).filter(word => word.length > 2)
tokenize(text) ==
  SelectSeq(
    SplitSpaces([i \in DOMAIN text |->
                   IF IsWordChar(text[i]) \/ IsSpace(text[i])
                     THEN LowerChar(text[i]) ELSE " "]),
    LAMBDA word : Len(word) > 2)

getFieldValue(post, field) ==
  CASE field = "title" -> post.title
    [] field = "excerpt" -> post.excerpt
    [] field = "content" -> post.content
    [] field = "tags" -> Join(post.tags, <<" ">>)
    [] field = "categories" ->
         Join([i \in DOMAIN post.categories |-> post.categories[i].name], <<" ">>)
    [] field = "author" -> post.author.name
    [] OTHER -> <<>>

\* the weights object of getFieldWeight
FieldWeights ==
  [title |-> FInt(3), tags |-> FInt(2), categories |-> FDivInt(3, 2),
   excerpt |-> FDivInt(12, 10), author |-> FInt(1), content |-> FDivInt(8, 10)]

\* weights[field] || 1
getFieldWeight(field) ==
  IF field \in DOMAIN FieldWeights THEN FieldWeights[field] ELSE FOne

\* useFuzzy ? similarity(fieldValue, token) : fieldValue.includes(token) ? 1 : 0
TokenScore(fieldValue, token, useFuzzy) ==
  IF useFuzzy THEN similarity(fieldValue, token)
  ELSE IF StrIncludes(fieldValue, token) THEN FOne ELSE FZero

\* if (tokenScore > threshold) { fieldScore += tokenScore; bestMatch = token; }
AddTokenScore(before, token, tokenScore, threshold) ==
  IF FLess(threshold, tokenScore)
    THEN [fieldScore |-> FAdd(before.fieldScore, tokenScore), bestMatch |-> token]
    ELSE before

\* fieldScore *= fieldWeight, and the match of the field
WeightedMatch(field, final) ==
  [field |-> field, value |-> final.bestMatch,
   score |-> FMul(final.fieldScore, getFieldWeight(field))]

\* the match calculateRelevance computes for one field
FieldMatch(fieldValue, field, queryTokens, options) ==
  LET useFuzzy == IF "fuzzy" \in DOMAIN options
                    THEN options.fuzzy ELSE DEFAULT_SEARCH_OPTIONS.fuzzy
      threshold == IF "fuzzyThreshold" \in DOMAIN options
                     THEN options.fuzzyThreshold
                     ELSE DEFAULT_SEARCH_OPTIONS.fuzzyThreshold
      scored[k \in 0..Len(queryTokens)] ==
        IF k = 0 THEN [fieldScore |-> FZero, bestMatch |-> <<>>]
        ELSE AddTokenScore(scored[k - 1], queryTokens[k],
                           TokenScore(fieldValue, queryTokens[k], useFuzzy),
                           threshold)
  IN  WeightedMatch(field, scored[Len(queryTokens)])

\* if (!fieldValue) continue; ... if (fieldScore > 0) { matches.push(...);
\* totalScore += fieldScore; }
AddFieldMatch(before, fieldValue, match) ==
  IF fieldValue # <<>> /\ FLess(FZero, match.score)
    THEN [matches |-> Append(before.matches, match),
          totalScore |-> FAdd(before.totalScore, match.score)]
    ELSE before

\* the boost for the query in the title
TitleBoost(post, query, totalScore) ==
  IF StrIncludes(toLowerCase(post.title), toLowerCase(query))
    THEN FAdd(totalScore, FInt(2)) ELSE totalScore

\* a variant that boosts a featured post only when something else scored
FeaturedBoostOfMatches(post, totalScore) ==
  IF post.featured /\ FLess(FZero, totalScore)
    THEN FAdd(totalScore, FOne) ELSE totalScore

\* the boost for featured posts
FeaturedBoost(post, totalScore) ==
  IF post.featured THEN FAdd(totalScore, FOne) ELSE totalScore

SearchResult(post, query, final) ==
  [post |-> post,
   score |-> FeaturedBoost(post, TitleBoost(post, query, final.totalScore)),
   matches |-> final.matches]

calculateRelevance(post, query, options) ==
  LET queryTokens == tokenize(query)
      searchFields == IF "fields" \in DOMAIN options
                        THEN options.fields ELSE DEFAULT_SEARCH_OPTIONS.fields
      searched[k \in 0..Len(searchFields)] ==
        IF k = 0 THEN [matches |-> <<>>, totalScore |-> FZero]
        ELSE AddFieldMatch(searched[k - 1],
                           getFieldValue(post, searchFields[k]),
                           FieldMatch(getFieldValue(post, searchFields[k]),
                                      searchFields[k], queryTokens, options))
  IN  SearchResult(post, query, searched[Len(searchFields)])

\* a variant whose sort puts a result before the earlier ones of equal score
searchPostsUnstable(posts, query, options) ==
  LET mergedOptions == Merge(DEFAULT_SEARCH_OPTIONS, options)
      minQueryLength == IF mergedOptions.minQueryLength # 0
                          THEN mergedOptions.minQueryLength ELSE 2
      scored == Map(posts, LAMBDA post : calculateRelevance(post, query, mergedOptions))
      results == StableSort(SelectSeq(scored, LAMBDA result : FLess(FZero, result.score)),
                            LAMBDA a, b : FLeq(a.score, b.score))
  IN  IF Len(query) < minQueryLength THEN <<>>
      ELSE Slice0(results, mergedOptions.limit)

\* a variant that does not validate the query length
searchPostsOfAnyQuery(posts, query, options) ==
  LET mergedOptions == Merge(DEFAULT_SEARCH_OPTIONS, options)
      scored == Map(posts, LAMBDA post : calculateRelevance(post, query, mergedOptions))
      results == StableSort(SelectSeq(scored, LAMBDA result : FLess(FZero, result.score)),
                            LAMBDA a, b : FLess(a.score, b.score))
  IN  Slice0(results, mergedOptions.limit)

\* mergedOptions.minQueryLength || 2 is 2 when minQueryLength is 0;
\* limit is not negative
searchPosts(posts, query, options) ==
  LET mergedOptions == Merge(DEFAULT_SEARCH_OPTIONS, options)
      minQueryLength == IF mergedOptions.minQueryLength # 0
                          THEN mergedOptions.minQueryLength ELSE 2
      scored == Map(posts, LAMBDA post : calculateRelevance(post, query, mergedOptions))
      results == StableSort(SelectSeq(scored, LAMBDA result : FLess(FZero, result.score)),
                            LAMBDA a, b : FLess(a.score, b.score))
  IN  IF Len(query) < minQueryLength THEN <<>>
      ELSE Slice0(results, mergedOptions.limit)

(***************************************************************************)
(* advancedSearch: a criterion is applied when it is truthy (a string that  *)
(* is not empty), featured when it is not undefined.                       *)
(***************************************************************************)
\* criteria.<key> is a string that is not empty
Given(criteria, key) == key \in DOMAIN criteria /\ criteria[key] # <<>>

FilterByCategory(posts, criteria) ==
  IF Given(criteria, "category")
    THEN SelectSeq(posts, LAMBDA post :
           \E i \in DOMAIN post.categories :
             \/ toLowerCase(post.categories[i].name) = toLowerCase(criteria.category)
             \/ post.categories[i].slug = criteria.category)
    ELSE posts

FilterByTag(posts, criteria) ==
  IF Given(criteria, "tag")
    THEN SelectSeq(posts, LAMBDA post :
           \E i \in DOMAIN post.tags :
             toLowerCase(post.tags[i]) = toLowerCase(criteria.tag))
    ELSE posts

FilterByAuthor(posts, criteria) ==
  IF Given(criteria, "author")
    THEN SelectSeq(posts, LAMBDA post :
           \/ StrIncludes(toLowerCase(post.author.name), toLowerCase(criteria.author))
           \/ post.author.slug = criteria.author)
    ELSE posts

\* a variant that applies the featured criterion only when it is true
FilterByFeaturedWhenTrue(posts, criteria) ==
  IF "featured" \in DOMAIN criteria /\ criteria.featured
    THEN SelectSeq(posts, LAMBDA post : post.featured = criteria.featured)
    ELSE posts

\* if (criteria.featured !== undefined)
FilterByFeatured(posts, criteria) ==
  IF "featured" \in DOMAIN criteria
    THEN SelectSeq(posts, LAMBDA post : post.featured = criteria.featured)
    ELSE posts

\* new Date(post.publishedAt) >= startDate
FilterByStart(posts, dateRange) ==
  IF "start" \in DOMAIN dateRange
    THEN SelectSeq(posts, LAMBDA post :
           DateGetTime(post.publishedAt) >= DateGetTime(dateRange.start))
    ELSE posts

\* new Date(post.publishedAt) <= endDate
FilterByEnd(posts, dateRange) ==
  IF "end" \in DOMAIN dateRange
    THEN SelectSeq(posts, LAMBDA post :
           DateGetTime(post.publishedAt) <= DateGetTime(dateRange.end))
    ELSE posts

FilterByDateRange(posts, criteria) ==
  IF "dateRange" \in DOMAIN criteria
    THEN FilterByEnd(FilterByStart(posts, criteria.dateRange), criteria.dateRange)
    ELSE posts

\* "Apply text search if query is provided"
RankByQuery(posts, criteria, options) ==
  IF Given(criteria, "query")
    THEN Posts(searchPosts(posts, criteria.query, options))
    ELSE posts

advancedSearch(posts, criteria, options) ==
  RankByQuery(
    FilterByDateRange(
      FilterByFeatured(
        FilterByAuthor(
          FilterByTag(
            FilterByCategory(posts, criteria), criteria), criteria), criteria), criteria),
    criteria, options)

(***************************************************************************)
(* getSearchSuggestions: a Set keeps its elements in insertion order and   *)
(* adding an element it holds changes nothing.                             *)
(***************************************************************************)
\* arrays one after the other: posts.forEach(post => post.tags.forEach(...))
RECURSIVE Concat(_)
Concat(arrays) ==
  IF arrays = <<>> THEN <<>> ELSE arrays[1] \o Concat(Tail(arrays))

\* a variant that adds a matching string whether the suggestions hold it or not
AddSuggestionAgain(suggestions, value, queryLower) ==
  IF StrIncludes(toLowerCase(value), queryLower)
    THEN Append(suggestions, value)
    ELSE suggestions

\* if (value.toLowerCase().includes(queryLower)) { suggestions.add(value); }
AddSuggestion(suggestions, value, queryLower) ==
  IF StrIncludes(toLowerCase(value), queryLower) /\ ~Includes(suggestions, value)
    THEN Append(suggestions, value)
    ELSE suggestions

\* one of the three forEach loops
AddSuggestions(suggestions, values, queryLower) ==
  LET added[k \in 0..Len(values)] ==
        IF k = 0 THEN suggestions
        ELSE AddSuggestion(added[k - 1], values[k], queryLower)
  IN  added[Len(values)]

PostTitles(posts) == [i \in DOMAIN posts |-> posts[i].title]

PostTags(posts) == Concat([i \in DOMAIN posts |-> posts[i].tags])

PostCategoryNames(posts) ==
  Concat([i \in DOMAIN posts |->
            [k \in DOMAIN posts[i].categories |-> posts[i].categories[k].name]])

\* maxSuggestions is not negative
getSearchSuggestions(posts, query, maxSuggestions) ==
  IF Len(query) < 2 THEN <<>>
  ELSE Slice0(
         AddSuggestions(
           AddSuggestions(
             AddSuggestions(<<>>, PostTitles(posts), toLowerCase(query)),
             PostTags(posts), toLowerCase(query)),
           PostCategoryNames(posts), toLowerCase(query)),
         maxSuggestions)

(***************************************************************************)
(* JSON.stringify of an array of strings and JSON.parse, for the texts the *)
(* search history reads: arrays, strings with the escapes \" \\ \/ \n \t,    *)
(* null, true, false, unsigned integers and the empty object.  A value is  *)
(* [type, value]; a text that is not JSON makes JSON.parse throw.          *)
(***************************************************************************)
JSONValue(type, value) == [type |-> type, value |-> value]

\* the escape sequence JSON.stringify writes for a character
EscapeChar(c) ==
  CASE c = "\"" -> <<"\\", "\"">>
    [] c = "\\" -> <<"\\", "\\">>
    [] c = "\n" -> <<"\\", "n">>
    [] c = "\t" -> <<"\\", "t">>
    [] OTHER -> <<c>>

JSONQuote(str) ==
  <<"\"">> \o Concat([i \in DOMAIN str |-> EscapeChar(str[i])]) \o <<"\"">>

\* JSON.stringify(array of strings)
JSONStringify(arr) ==
  <<"[">> \o Join([i \in DOMAIN arr |-> JSONQuote(arr[i])], <<",">>) \o <<"]">>

\* the result of a parsing step: the value and the position after it
Parsed(value, next) == [ok |-> TRUE, value |-> value, next |-> next]

SyntaxError == [ok |-> FALSE, value |-> JSONValue("undefined", <<>>), next |-> 0]

\* the number of backslashes that stand immediately before position j
RECURSIVE BackslashesBefore(_, _)
BackslashesBefore(s, j) ==
  IF j > 1 /\ s[j - 1] = "\\" THEN 1 + BackslashesBefore(s, j - 1) ELSE 0

\* the characters of a string literal without their escapes; <<"fail">>
\* marks an escape or a control character JSON does not allow
RECURSIVE Unescape(_)
Unescape(body) ==
  IF body = <<>> THEN <<>>
  ELSE IF body[1] = "\\"
    THEN IF Len(body) < 2 THEN <<"fail">>
         ELSE IF body[2] \in {"\"", "\\", "/"}
           THEN <<body[2]>> \o Unescape(SubSeq(body, 3, Len(body)))
         ELSE IF body[2] = "n" THEN <<"\n">> \o Unescape(SubSeq(body, 3, Len(body)))
         ELSE IF body[2] = "t" THEN <<"\t">> \o Unescape(SubSeq(body, 3, Len(body)))
         ELSE <<"fail">>
  ELSE IF body[1] \in {"\n", "\t"} THEN <<"fail">>
  ELSE <<body[1]>> \o Unescape(Tail(body))

\* the string literal between the quotes at i and at close
StringBetween(s, i, close) ==
  IF Includes(Unescape(SubSeq(s, i + 1, close - 1)), "fail")
    THEN SyntaxError
    ELSE Parsed(JSONValue("string", Unescape(SubSeq(s, i + 1, close - 1))), close + 1)

\* s[i] is a quote: the literal ends at the next quote that is not escaped
ParseString(s, i) ==
  LET closing == {j \in (i + 1)..Len(s) :
                    s[j] = "\"" /\ BackslashesBefore(s, j) % 2 = 0}
  IN  IF closing = {} THEN SyntaxError
      ELSE StringBetween(s, i, CHOOSE j \in closing : \A k \in closing : j <= k)

\* null, true or false at position i
ParseLiteral(s, i, word, type, value) ==
  IF i + Len(word) - 1 <= Len(s) /\ SubSeq(s, i, i + Len(word) - 1) = word
    THEN Parsed(JSONValue(type, value), i + Len(word))
    ELSE SyntaxError

\* the first position from i on that holds no digit
RECURSIVE SkipDigits(_, _)
SkipDigits(s, i) ==
  IF i <= Len(s) /\ s[i] \in Digits THEN SkipDigits(s, i + 1) ELSE i

\* s[i] is a digit: an unsigned integer without a leading zero
ParseNumber(s, i) ==
  IF s[i] = "0" /\ SkipDigits(s, i) > i + 1 THEN SyntaxError
  ELSE Parsed(JSONValue("number", SubSeq(s, i, SkipDigits(s, i) - 1)), SkipDigits(s, i))

RECURSIVE ParseValue(_, _)
RECURSIVE ParseItems(_, _, _)

\* an item was parsed: a comma and the next item, or the closing bracket
ParseAfterItem(s, items, item, k) ==
  IF ~item.ok \/ k > Len(s) THEN SyntaxError
  ELSE IF s[k] = "," THEN ParseItems(s, SkipSpace(s, k + 1), Append(items, item.value))
  ELSE IF s[k] = "]" THEN Parsed(JSONValue("array", Append(items, item.value)), k + 1)
  ELSE SyntaxError

ParseItem(s, items, item) ==
  ParseAfterItem(s, items, item, IF item.ok THEN SkipSpace(s, item.next) ELSE 0)

ParseItems(s, i, items) == ParseItem(s, items, ParseValue(s, i))

\* s[i] is an opening bracket; k is the position of what follows it
ParseArray(s, k) ==
  IF k > Len(s) THEN SyntaxError
  ELSE IF s[k] = "]" THEN Parsed(JSONValue("array", <<>>), k + 1)
  ELSE ParseItems(s, k, <<>>)

\* s[i] is an opening brace; k is the position of what follows it
ParseObject(s, k) ==
  IF k <= Len(s) /\ s[k] = "}" THEN Parsed(JSONValue("object", <<>>), k + 1)
  ELSE SyntaxError

ParseValue(s, i) ==
  IF i > Len(s) THEN SyntaxError
  ELSE CASE s[i] = "[" -> ParseArray(s, SkipSpace(s, i + 1))
         [] s[i] = "{" -> ParseObject(s, SkipSpace(s, i + 1))
         [] s[i] = "\"" -> ParseString(s, i)
         [] s[i] \in Digits -> ParseNumber(s, i)
         [] s[i] = "n" -> ParseLiteral(s, i, <<"n","u","l","l">>, "null", <<>>)
         [] s[i] = "t" -> ParseLiteral(s, i, <<"t","r","u","e">>, "boolean", TRUE)
         [] s[i] = "f" -> ParseLiteral(s, i, <<"f","a","l","s","e">>, "boolean", FALSE)
         [] OTHER -> SyntaxError

\* the whole text is one value
ParseWhole(s, parsed) ==
  IF parsed.ok /\ SkipSpace(s, parsed.next) = Len(s) + 1 THEN parsed ELSE SyntaxError

JSONParse(text) == ParseWhole(text, ParseValue(text, SkipSpace(text, 1)))

(***************************************************************************)
(* Search history in localStorage.  The entry 'searchHistory' of the store *)
(* is absent or holds a string; getItem, setItem and removeItem may throw. *)
(* A call returns a value or throws.                                       *)
(***************************************************************************)
Returned(value) == [threw |-> FALSE, value |-> value]

Thrown == [threw |-> TRUE, value |-> JSONValue("undefined", <<>>)]

\* try { ... } catch (error) { console.warn(...); return fallback; }
TryCatch(outcome, fallback) == IF outcome.threw THEN Returned(fallback) ELSE outcome

NoEntry == [present |-> FALSE, value |-> <<>>]

Entry(text) == [present |-> TRUE, value |-> text]

\* .slice(0, 10)
HistoryLimit == 10

\* history ? JSON.parse(history) : [] for the string or null that getItem returned
ParseHistory(entry, parsed) ==
  IF ~entry.present \/ entry.value = <<>> THEN Returned(JSONValue("array", <<>>))
  ELSE IF parsed.ok THEN Returned(parsed.value)
  ELSE Thrown

getSearchHistory(entry, getFails) ==
  TryCatch(IF getFails THEN Thrown ELSE ParseHistory(entry, JSONParse(entry.value)),
           JSONValue("array", <<>>))

\* [query, ...history.filter(q => q !== query)].slice(0, 10); the arrays
\* read from the store hold strings
NewHistory(query, history) ==
  Slice0(<<query>> \o SelectSeq([i \in DOMAIN history |-> history[i].value],
                                LAMBDA q : q # query),
         HistoryLimit)

\* localStorage.setItem('searchHistory', JSON.stringify(newHistory))
SetItem(newHistory, setFails) ==
  IF setFails THEN Thrown ELSE Returned(Entry(JSONStringify(newHistory)))

\* a variant that keeps the earlier occurrence of the saved query
saveSearchHistoryKeepingEarlier(entry, query, getFails, setFails) ==
  LET history == getSearchHistory(entry, getFails).value
  IN  TryCatch(IF history.type # "array" THEN Thrown
               ELSE SetItem(Slice0(<<query>> \o [i \in DOMAIN history.value |->
                                                  history.value[i].value],
                                   HistoryLimit),
                            setFails),
               entry)

\* the entry of the store after the call; history.filter throws a TypeError
\* when history is not an array
saveSearchHistory(entry, query, getFails, setFails) ==
  LET history == getSearchHistory(entry, getFails).value
  IN  TryCatch(IF history.type # "array" THEN Thrown
               ELSE SetItem(NewHistory(query, history.value), setFails),
               entry)

\* the entry of the store after the call
clearSearchHistory(entry, removeFails) ==
  TryCatch(IF removeFails THEN Thrown ELSE Returned(NoEntry), entry)

(***************************************************************************)
(* Pagination.  The numbers are integers small enough for the division of  *)
(* doubles to be exact: Math.ceil(a / b) is the integer ceiling for a >= 0 *)
(* and b >= 1.                                                             *)
(***************************************************************************)
DEFAULT_PAGINATION_OPTIONS == [currentPage |-> 1, postsPerPage |-> 10]

\* Math.ceil(a / b) for a >= 0 and b >= 1
CeilDiv(a, b) == (a + b - 1) \div b

\* mergedOptions.totalPosts || posts.length: undefined and 0 are falsy
TotalPostsOr(mergedOptions, length) ==
  IF "totalPosts" \in DOMAIN mergedOptions /\ mergedOptions.totalPosts # 0
    THEN mergedOptions.totalPosts
    ELSE length

\* the returned object
PaginationData(currentPage, postsPerPage, totalPosts, totalPages) ==
  [currentPage |-> currentPage,
   totalPages |-> totalPages,
   totalPosts |-> totalPosts,
   postsPerPage |-> postsPerPage,
   hasNextPage |-> currentPage < totalPages,
   hasPreviousPage |-> currentPage > 1]

\* postsPerPage >= 1
calculatePagination(posts, options) ==
  LET mergedOptions == Merge(DEFAULT_PAGINATION_OPTIONS, options)
      totalPosts == TotalPostsOr(mergedOptions, Len(posts))
  IN  PaginationData(mergedOptions.currentPage, mergedOptions.postsPerPage,
                     totalPosts, CeilDiv(totalPosts, mergedOptions.postsPerPage))

\* the index Array.prototype.slice makes of an argument: a negative one
\* counts from the end, and the result lies in 0..length
SliceIndex(index, length) ==
  IF index < 0 THEN (IF length + index < 0 THEN 0 ELSE length + index)
  ELSE IF index > length THEN length ELSE index

\* Array.prototype.slice(start, end)
Slice(arr, start, end) ==
  SubSeq(arr, SliceIndex(start, Len(arr)) + 1, SliceIndex(end, Len(arr)))

getPaginatedPosts(posts, options) ==
  LET mergedOptions == Merge(DEFAULT_PAGINATION_OPTIONS, options)
      startIndex == (mergedOptions.currentPage - 1) * mergedOptions.postsPerPage
      endIndex == startIndex + mergedOptions.postsPerPage
  IN  Slice(posts, startIndex, endIndex)

\* the marker '...' among the page numbers, which are all at least 1
Ellipsis == 0

\* Array.from({ length: n }, (_, i) => i + 1), and the pages from..to of the for loop
PageRange(from, to) == [i \in 1..(to - from + 1) |-> from + i - 1]

\* a variant that puts an ellipsis after the pages in every case
VisiblePagesThenEllipsis(startPage, endPage, totalPages) ==
  PageRange(startPage, endPage) \o <<Ellipsis>>

\* the pages between the first and the last, and the ellipsis after them
VisiblePages(startPage, endPage, totalPages) ==
  PageRange(startPage, endPage)
    \o (IF endPage < totalPages - 1 THEN <<Ellipsis>> ELSE <<>>)

\* totalPages > maxVisiblePages
WindowedPageNumbers(currentPage, totalPages, maxVisiblePages, halfVisible) ==
  <<1>>
    \o (IF currentPage > halfVisible + 1 THEN <<Ellipsis>> ELSE <<>>)
    \o VisiblePages(
         IF currentPage >= totalPages - halfVisible
           THEN totalPages - maxVisiblePages + 2
           ELSE IF currentPage - halfVisible > 2 THEN currentPage - halfVisible ELSE 2,
         IF currentPage <= halfVisible + 1
           THEN maxVisiblePages - 1
           ELSE IF currentPage + halfVisible < totalPages - 1
                  THEN currentPage + halfVisible ELSE totalPages - 1,
         totalPages)
    \o (IF totalPages > 1 THEN <<totalPages>> ELSE <<>>)

\* maxVisiblePages >= 0
generatePageNumbers(currentPage, totalPages, maxVisiblePages) ==
  IF totalPages <= maxVisiblePages THEN PageRange(1, totalPages)
  ELSE WindowedPageNumbers(currentPage, totalPages, maxVisiblePages,
                           maxVisiblePages \div 2)

\* the object validatePagination returns: correctedPage is <<>> for a valid
\* page, which has no such property, and <<page>> otherwise
Validation(isValid, correctedPage) ==
  IF correctedPage = <<>> THEN [isValid |-> isValid]
  ELSE [isValid |-> isValid, correctedPage |-> correctedPage[1]]

\* a variant that also corrects a page when there are no pages
validatePaginationOfAnyTotal(currentPage, totalPages) ==
  IF currentPage < 1 THEN Validation(FALSE, <<1>>)
  ELSE IF currentPage > totalPages THEN Validation(FALSE, <<totalPages>>)
  ELSE Validation(TRUE, <<>>)

validatePagination(currentPage, totalPages) ==
  IF currentPage < 1 THEN Validation(FALSE, <<1>>)
  ELSE IF currentPage > totalPages /\ totalPages > 0
    THEN Validation(FALSE, <<totalPages>>)
  ELSE Validation(TRUE, <<>>)

(***************************************************************************)
(* The BlogList page: its state is currentPage; totalPages is computed     *)
(* from the number of posts at every render.                               *)
(***************************************************************************)
POSTS_PER_PAGE == 5

\* Math.ceil(allPosts.length / POSTS_PER_PAGE)
BlogTotalPages(postCount) == CeilDiv(postCount, POSTS_PER_PAGE)

\* the updater p => Math.max(p - 1, 1)
handlePrev(p) == IF p - 1 > 1 THEN p - 1 ELSE 1

\* the updater p => Math.min(p + 1, totalPages)
handleNext(p, totalPages) == IF p + 1 < totalPages THEN p + 1 ELSE totalPages

(***************************************************************************)
(* ThemeProvider: the state theme, the entry storageKey of localStorage    *)
(* (<<>> when absent, <<value>> otherwise), the data-theme attribute of    *)
(* the document and the colour scheme of the system.                       *)
(***************************************************************************)
\* window.matchMedia('(prefers-color-scheme: dark)').matches ? 'dark' : 'light'
SystemTheme(matches) == IF matches THEN "dark" ELSE "light"

\* the initializer of useState
InitialTheme(storedTheme, matches) ==
  IF storedTheme = <<>> THEN SystemTheme(matches) ELSE storedTheme[1]

\* setTheme: the state, the stored entry and the attribute after the call
setTheme(newTheme) ==
  [theme |-> newTheme, stored |-> <<newTheme>>, attribute |-> newTheme]

\* the listener of the change event; current is what setTheme would replace
handleSystemThemeChange(current, matches) ==
  IF current.stored = <<>> THEN setTheme(SystemTheme(matches)) ELSE current

\* an options object without one of its properties
Omit(options, key) == [k \in DOMAIN options \ {key} |-> options[k]]

(***************************************************************************)
(* The posts the specifications draw their inputs from.                    *)
(***************************************************************************)
W_React == <<"R","e","a","c","t">>
W_react == <<"r","e","a","c","t">>
W_hooks == <<"h","o","o","k","s">>
W_the == <<"t","h","e">>
W_css == <<"c","s","s">>

\* the most words a generated title holds
MaxTitleWords == 2

TitleVocabulary == {W_React, W_hooks, W_the}

\* the sequences over S of length at most n
RECURSIVE SeqsUpTo(_, _)
SeqsUpTo(S, n) ==
  IF n = 0 THEN {<<>>}
  ELSE LET shorter == SeqsUpTo(S, n - 1)
       IN  shorter \cup {Append(w, x) : w \in {v \in shorter : Len(v) = n - 1}, x \in S}

Titles == {Join(ws, <<" ">>) : ws \in SeqsUpTo(TitleVocabulary, MaxTitleWords)}

Cat1 == [slug |-> <<"f","e">>, name |-> <<"F","r","o","n","t","e","n","d">>]
Cat2 == [slug |-> W_css, name |-> <<"C","S","S">>]

Author1 == [slug |-> <<"a","n","n">>, name |-> <<"A","n","n">>]
Author2 == [slug |-> <<"r","o","b">>, name |-> <<"B","o","b">>]

\* excerpt, author, categories and tags of the generated posts
Profiles ==
  { [excerpt |-> <<>>, author |-> Author1, categories |-> <<>>, tags |-> <<>>],
    [excerpt |-> W_the, author |-> Author1, categories |-> <<Cat1>>,
     tags |-> <<W_react>>],
    [excerpt |-> W_the, author |-> Author2, categories |-> <<Cat2>>,
     tags |-> <<W_css>>],
    [excerpt |-> W_react, author |-> Author2, categories |-> <<Cat1, Cat2>>,
     tags |-> <<W_react, W_hooks>>],
    [excerpt |-> W_hooks, author |-> Author1, categories |-> <<Cat2, Cat1>>,
     tags |-> <<W_hooks, W_react>>],
    [excerpt |-> <<>>, author |-> Author2, categories |-> <<>>,
     tags |-> <<W_react>>] }

Day(d) == [day |-> d, hasTime |-> FALSE, minute |-> 0]

BlogPost(id, title, excerpt, content, publishedAt, author, categories, tags, featured) ==
  [id |-> id, title |-> title, excerpt |-> excerpt, content |-> content,
   publishedAt |-> publishedAt, author |-> author, categories |-> categories,
   tags |-> tags, featured |-> featured]

\* the posts the similarity scorer is applied to
SimPosts ==
  {BlogPost("p1", t, p.excerpt, <<>>, Day(1), p.author, p.categories, p.tags, FALSE) :
     t \in Titles, p \in Profiles}

Algorithms == {"category", "tags", "mixed"}

\* the most posts a generated collection holds
MaxCollection == 3

PostIds == <<"p1", "p2", "p3", "p4", "p5", "p6", "p7", "p8">>

\* what the posts of a generated collection are made of, but for their ids
RelatedBodies ==
  { BlogPost("", W_the, <<>>, <<>>, Day(2), Author2, <<>>, <<W_react>>, FALSE),
    BlogPost("", W_React, <<>>, <<>>, Day(1), Author1, <<Cat2>>, <<W_css>>, TRUE) }

\* a post that is in no generated collection
OutsidePost ==
  BlogPost("p0", W_React, <<>>, <<>>, Day(2), Author1, <<Cat1>>, <<W_react>>, FALSE)

\* the collections of at most MaxCollection posts: the post at position i has id PostIds[i]
Collections(Bodies) ==
  {[i \in DOMAIN bs |-> [bs[i] EXCEPT !.id = PostIds[i]]] :
     bs \in SeqsUpTo(Bodies, MaxCollection)}

RelatedConfigs ==
  [maxPosts : 0..MaxCollection, algorithm : Algorithms, excludeCurrentPost : BOOLEAN]

W_Basics == <<"B","a","s","i","c","s">>

\* the most posts a searched collection holds
MaxSearchPosts == 2

\* what the posts of a searched collection are made of, but for their ids
SearchBodies ==
  { BlogPost("", W_React \o <<" ">> \o W_Basics, <<>>, <<>>, Day(1), Author1,
             <<Cat1>>, <<W_react>>, FALSE),
    BlogPost("", W_react, W_react \o <<" ">> \o W_hooks, <<>>, Day(2), Author2,
             <<>>, <<W_hooks>>, TRUE),
    BlogPost("", W_hooks, <<>>, <<>>, Day(3), Author1,
             <<Cat2>>, <<W_react, W_hooks>>, FALSE) }

SearchCollections ==
  {[i \in DOMAIN bs |-> [bs[i] EXCEPT !.id = PostIds[i]]] :
     bs \in SeqsUpTo(SearchBodies, MaxSearchPosts)}

Queries ==
  { <<>>, <<"a">>, W_react, <<"r","e","a","c">>, W_react \o <<" ">> \o W_hooks }

SearchOptions ==
  [fields : {DEFAULT_SEARCH_FIELDS, <<"title", "categories", "author", "slug">>, <<>>},
   minQueryLength : {0, 2, 6},
   fuzzy : BOOLEAN,
   fuzzyThreshold : {FZero, Threshold06, FOne},
   limit : 0..MaxSearchPosts,
   includeContent : {FALSE}]

\* a criteria or options object with the properties of S only
Restrict(object, S) == [k \in S |-> object[k]]

\* the values a criterion of advancedSearch takes when it is supplied
CriteriaValues ==
  [category : {<<>>, <<"F","R","O","N","T","E","N","D">>, <<"f","e">>},
   tag : {W_React},
   author : {<<"a","n">>, <<"r","o","b">>},
   featured : BOOLEAN,
   dateRange : {[start |-> Day(2)], [end |-> Day(2)], [start |-> Day(1), end |-> Day(2)]},
   query : {W_react}]

\* every criterion is optional
Criteria ==
  {Restrict(c, S) : c \in CriteriaValues, S \in SUBSET {"category", "tag", "author", "featured", "dateRange", "query"}}

W_Redux == <<"R","e","d","u","x">>

Cat3 == [slug |-> <<"r","e","d","u","x">>, name |-> W_Redux]

\* what the posts suggestions are drawn from are made of, but for their ids:
\* a tag of one is the title of another, a tag is a category name
SuggestBodies ==
  { BlogPost("", W_React, <<>>, <<>>, Day(1), Author1, <<Cat3>>, <<W_react, W_hooks>>, FALSE),
    BlogPost("", W_react, <<>>, <<>>, Day(2), Author2, <<Cat1>>, <<W_hooks, W_React>>, FALSE),
    BlogPost("", W_hooks, <<>>, <<>>, Day(3), Author1, <<Cat2, Cat3>>, <<W_Redux, W_css>>, TRUE) }

SuggestCollections ==
  {[i \in DOMAIN bs |-> [bs[i] EXCEPT !.id = PostIds[i]]] :
     bs \in SeqsUpTo(SuggestBodies, MaxSearchPosts)}

SuggestQueries ==
  { <<>>, <<"r">>, <<"r","e">>, <<"R","E">>, <<"o","o">>, <<"s","s">> }

\* the largest maxSuggestions of a call
MaxSuggestions == 3

\* the queries that are saved, some with characters JSON escapes
HistoryQueries ==
  << W_react, <<"a","\"","b">>, <<"\\">>, <<>>, <<"[","]">>, <<"n","u","l","l">>,
     <<",">>, <<"x"," ","y">>, <<"1">>, <<"2">>, <<"3">>, <<"4">> >>

\* what the store may hold when the utilities are not its only writer
StoredEntries ==
  { NoEntry, Entry(<<>>), Entry(JSONStringify(<<W_react, W_hooks>>)),
    Entry(JSONStringify(SubSeq(HistoryQueries, 1, HistoryLimit))),
    Entry(<<" ","[","\"","a","\""," ",","," ","\"","b","\"","]"," ">>),
    Entry(<<"[","\"","a","\"">>), Entry(<<"{","}">>), Entry(<<"n","u","l","l">>),
    Entry(<<"\"","a","\"">>), Entry(<<"5">>) }

VARIABLES
  pc,                   \* "ready", and the name of the function once it has returned
  simPostA, simPostB,   \* the arguments of calculatePostSimilarity
  simFactors,           \* its four factors and its result
  relCurrentPost, relAllPosts, relConfig,  \* the arguments of the selector
  relResult,            \* the posts it returned
  srchPosts, srchQuery, srchOptions,       \* the arguments of the search
  srchResults,          \* the results it returned
  advPosts, advCriteria, advOptions,       \* the arguments of advancedSearch
  advResult,            \* the posts it returned
  sugPosts, sugQuery, sugMax,              \* the arguments of getSearchSuggestions
  sugResult,            \* the suggestions it returned
  store,                \* the entry 'searchHistory' of localStorage
  storeFaulty,          \* whether the operations of localStorage can throw
  histReturned,         \* what the last call on the search history returned
  histRaised,           \* whether it threw
  histCalls,            \* the number of calls on the search history so far
  lastSaved,            \* <<query>> of the latest saveSearchHistory since the last
                        \* clearSearchHistory, <<>> when there is none
  pagePosts, pageOptions,                  \* the arguments of calculatePagination
                                           \* and of getPaginatedPosts
  pageResult,           \* what the function returned
  numCurrentPage, numTotalPages, numMaxVisiblePages,  \* the arguments of
                                           \* generatePageNumbers
  numPages,             \* the page numbers it returned
  valCurrentPage, valTotalPages,           \* the arguments of validatePagination
  valResult,            \* the object it returned
  blogPostCount,        \* allPosts.length of the BlogList page
  blogCurrentPage,      \* its state currentPage
  theme,                \* the state of ThemeProvider
  themeStored,          \* the entry storageKey of localStorage
  themeAttribute,       \* the attribute data-theme of the document element
  systemDark,           \* whether the system prefers the dark colour scheme
  themeChosen,          \* whether the user has called toggleTheme or setTheme,
                        \* in this session or in the one that left the entry
  systemChanges         \* the number of change events of the system so far

simVars == <<simPostA, simPostB, simFactors>>
relVars == <<relCurrentPost, relAllPosts, relConfig, relResult>>
srchVars == <<srchPosts, srchQuery, srchOptions, srchResults>>
advVars == <<advPosts, advCriteria, advOptions, advResult>>
sugVars == <<sugPosts, sugQuery, sugMax, sugResult>>
histVars == <<store, storeFaulty, histReturned, histRaised, histCalls, lastSaved>>
pageVars == <<pagePosts, pageOptions, pageResult>>
numVars == <<numCurrentPage, numTotalPages, numMaxVisiblePages, numPages>>
valVars == <<valCurrentPage, valTotalPages, valResult>>
blogVars == <<blogPostCount, blogCurrentPage>>
themeVars == <<theme, themeStored, themeAttribute, systemDark, themeChosen, systemChanges>>
vars == <<pc, simVars, relVars, srchVars, advVars, sugVars, histVars, pageVars, numVars, valVars, blogVars, themeVars>>

NoFactors ==
  [category |-> FZero, tag |-> FZero, content |-> FZero, author |-> FZero,
   similarityScore |-> FZero]

SimIdle ==
  /\ simPostA = OutsidePost
  /\ simPostB = OutsidePost
  /\ simFactors = NoFactors

RelIdle ==
  /\ relCurrentPost = OutsidePost
  /\ relAllPosts = <<>>
  /\ relConfig = DEFAULT_RELATED_POSTS_CONFIG
  /\ relResult = <<>>

SrchIdle ==
  /\ srchPosts = <<>>
  /\ srchQuery = <<>>
  /\ srchOptions = DEFAULT_SEARCH_OPTIONS
  /\ srchResults = <<>>

AdvIdle ==
  /\ advPosts = <<>>
  /\ advCriteria = <<>>
  /\ advOptions = <<>>
  /\ advResult = <<>>

SugIdle ==
  /\ sugPosts = <<>>
  /\ sugQuery = <<>>
  /\ sugMax = 5
  /\ sugResult = <<>>

Undefined == JSONValue("undefined", <<>>)

PageIdle ==
  /\ pagePosts = <<>>
  /\ pageOptions = <<>>
  /\ pageResult = <<>>

NumIdle ==
  /\ numCurrentPage = 1
  /\ numTotalPages = 1
  /\ numMaxVisiblePages = 7
  /\ numPages = <<>>

ValIdle ==
  /\ valCurrentPage = 1
  /\ valTotalPages = 1
  /\ valResult = <<>>

BlogIdle ==
  /\ blogPostCount = 0
  /\ blogCurrentPage = 1

ThemeIdle ==
  /\ theme = "light"
  /\ themeStored = <<>>
  /\ themeAttribute = "light"
  /\ systemDark = FALSE
  /\ themeChosen = FALSE
  /\ systemChanges = 0

HistIdle ==
  /\ store = NoEntry
  /\ storeFaulty = FALSE
  /\ histReturned = Undefined
  /\ histRaised = FALSE
  /\ histCalls = 0
  /\ lastSaved = <<>>

(***************************************************************************)
(* The similarity scorer applied to a pair of posts.                       *)
(***************************************************************************)
SimInit ==
  /\ pc = "ready"
  /\ simPostA \in SimPosts
  /\ simPostB \in SimPosts
  /\ simFactors = NoFactors
  /\ RelIdle
  /\ SrchIdle
  /\ AdvIdle
  /\ SugIdle
  /\ HistIdle
  /\ PageIdle
  /\ NumIdle
  /\ ValIdle
  /\ BlogIdle
  /\ ThemeIdle

CallCalculatePostSimilarity ==
  /\ pc = "ready"
  /\ pc' = "calculatePostSimilarity"
  /\ simFactors' =
       [category |-> calculateCategorySimilarity(simPostA, simPostB),
        tag |-> calculateTagSimilarity(simPostA, simPostB),
        content |-> calculateContentSimilarity(simPostA, simPostB),
        author |-> calculateAuthorSimilarity(simPostA, simPostB),
        similarityScore |->
          calculatePostSimilarity(simPostA, simPostB,
                                  DEFAULT_RELATED_POSTS_CONFIG.algorithm)]
  /\ UNCHANGED <<simPostA, simPostB, relVars, srchVars, advVars, sugVars, histVars, pageVars, numVars, valVars, blogVars, themeVars>>

SimNext == CallCalculatePostSimilarity

SpecSim == SimInit /\ [][SimNext]_vars

(***************************************************************************)
(* The related-posts selector applied to a post, a collection with unique  *)
(* ids and a configuration.                                                *)
(***************************************************************************)
RelInit ==
  /\ pc = "ready"
  /\ relAllPosts \in Collections(RelatedBodies)
  /\ relCurrentPost \in Range(relAllPosts) \cup {OutsidePost}
  /\ relConfig \in RelatedConfigs
  /\ relResult = <<>>
  /\ SimIdle
  /\ SrchIdle
  /\ AdvIdle
  /\ SugIdle
  /\ HistIdle
  /\ PageIdle
  /\ NumIdle
  /\ ValIdle
  /\ BlogIdle
  /\ ThemeIdle

CallFindRelatedPosts ==
  /\ pc = "ready"
  /\ pc' = "findRelatedPosts"
  /\ relResult' = findRelatedPosts(relCurrentPost, relAllPosts, relConfig)
  /\ UNCHANGED <<relCurrentPost, relAllPosts, relConfig, simVars, srchVars, advVars, sugVars, histVars, pageVars, numVars, valVars, blogVars, themeVars>>

CallGetRelatedPostsWithFallback ==
  /\ pc = "ready"
  /\ pc' = "getRelatedPostsWithFallback"
  /\ relResult' = getRelatedPostsWithFallback(relCurrentPost, relAllPosts, relConfig)
  /\ UNCHANGED <<relCurrentPost, relAllPosts, relConfig, simVars, srchVars, advVars, sugVars, histVars, pageVars, numVars, valVars, blogVars, themeVars>>

RelNext == CallFindRelatedPosts \/ CallGetRelatedPostsWithFallback

SpecRelated == RelInit /\ [][RelNext]_vars
(***************************************************************************)
(* The search applied to a collection with unique ids, a query and         *)
(* options; calculateRelevance applied to one post of the collection with  *)
(* the merged options, as searchPosts applies it.                          *)
(***************************************************************************)
SrchInit ==
  /\ pc = "ready"
  /\ srchPosts \in SearchCollections
  /\ srchQuery \in Queries
  /\ srchOptions \in SearchOptions
  /\ srchResults = <<>>
  /\ SimIdle
  /\ RelIdle
  /\ AdvIdle
  /\ SugIdle
  /\ HistIdle
  /\ PageIdle
  /\ NumIdle
  /\ ValIdle
  /\ BlogIdle
  /\ ThemeIdle

CallSearchPosts ==
  /\ pc = "ready"
  /\ pc' = "searchPosts"
  /\ srchResults' = searchPosts(srchPosts, srchQuery, srchOptions)
  /\ UNCHANGED <<srchPosts, srchQuery, srchOptions, simVars, relVars, advVars, sugVars, histVars, pageVars, numVars, valVars, blogVars, themeVars>>

CallCalculateRelevance ==
  /\ pc = "ready"
  /\ pc' = "calculateRelevance"
  /\ \E i \in DOMAIN srchPosts :
       srchResults' = <<calculateRelevance(srchPosts[i], srchQuery,
                                           Merge(DEFAULT_SEARCH_OPTIONS, srchOptions))>>
  /\ UNCHANGED <<srchPosts, srchQuery, srchOptions, simVars, relVars, advVars, sugVars, histVars, pageVars, numVars, valVars, blogVars, themeVars>>

SrchNext == CallSearchPosts \/ CallCalculateRelevance

SpecSearch == SrchInit /\ [][SrchNext]_vars

(***************************************************************************)
(* advancedSearch applied to a collection with unique ids, criteria and    *)
(* search options.                                                         *)
(***************************************************************************)
AdvInit ==
  /\ pc = "ready"
  /\ advPosts \in SearchCollections
  /\ advCriteria \in Criteria
  /\ advOptions \in {<<>>, [fuzzy |-> FALSE, limit |-> 1]}
  /\ advResult = <<>>
  /\ SimIdle
  /\ RelIdle
  /\ SrchIdle
  /\ SugIdle
  /\ HistIdle
  /\ PageIdle
  /\ NumIdle
  /\ ValIdle
  /\ BlogIdle
  /\ ThemeIdle

CallAdvancedSearch ==
  /\ pc = "ready"
  /\ pc' = "advancedSearch"
  /\ advResult' = advancedSearch(advPosts, advCriteria, advOptions)
  /\ UNCHANGED <<advPosts, advCriteria, advOptions, simVars, relVars, srchVars, sugVars, histVars, pageVars, numVars, valVars, blogVars, themeVars>>

AdvNext == CallAdvancedSearch

SpecAdvanced == AdvInit /\ [][AdvNext]_vars

(***************************************************************************)
(* getSearchSuggestions applied to a collection with unique ids, a query   *)
(* and a number of suggestions.                                            *)
(***************************************************************************)
SugInit ==
  /\ pc = "ready"
  /\ sugPosts \in SuggestCollections
  /\ sugQuery \in SuggestQueries
  /\ sugMax \in 0..MaxSuggestions
  /\ sugResult = <<>>
  /\ SimIdle
  /\ RelIdle
  /\ SrchIdle
  /\ AdvIdle
  /\ HistIdle
  /\ PageIdle
  /\ NumIdle
  /\ ValIdle
  /\ BlogIdle
  /\ ThemeIdle

CallGetSearchSuggestions ==
  /\ pc = "ready"
  /\ pc' = "getSearchSuggestions"
  /\ sugResult' = getSearchSuggestions(sugPosts, sugQuery, sugMax)
  /\ UNCHANGED <<sugPosts, sugQuery, sugMax, simVars, relVars, srchVars, advVars, histVars, pageVars, numVars, valVars, blogVars, themeVars>>

SugNext == CallGetSearchSuggestions

SpecSuggest == SugInit /\ [][SugNext]_vars

(***************************************************************************)
(* The search history: any sequence of saveSearchHistory, getSearchHistory *)
(* and clearSearchHistory calls, of at most MaxCalls calls on a working    *)
(* store and MaxFaultyCalls on one that can throw.  A call saves a query   *)
(* the history does not hold, or again its newest, its second or its       *)
(* oldest query.                                                           *)
(***************************************************************************)
HistoryCalls == {"ready", "saveSearchHistory", "getSearchHistory", "clearSearchHistory"}

\* the most calls of a sequence on a working store
MaxCalls == 12

\* the most calls of a sequence on a store that can throw
MaxFaultyCalls == 4

\* one more call is made
CountCall ==
  /\ histCalls < (IF storeFaulty THEN MaxFaultyCalls ELSE MaxCalls)
  /\ histCalls' = histCalls + 1

\* whether an operation of localStorage throws
Faults == IF storeFaulty THEN BOOLEAN ELSE {FALSE}

\* the strings of a history, none when it is no array of strings
StringsOf(history) ==
  IF history.type = "array" /\ \A i \in DOMAIN history.value :
                                 history.value[i].type = "string"
    THEN [i \in DOMAIN history.value |-> history.value[i].value]
    ELSE <<>>

\* the strings of the stored history
StoredHistory == StringsOf(getSearchHistory(store, FALSE).value)

\* the first query the history does not hold, and its newest, its second
\* and its oldest query
QueriesToSave(history) ==
  LET fresh == {i \in DOMAIN HistoryQueries : ~Includes(history, HistoryQueries[i])}
  IN  {HistoryQueries[i] : i \in {k \in fresh : \A n \in fresh : k <= n}}
        \cup {history[i] : i \in DOMAIN history \cap {1, 2, Len(history)}}

SaveChoices == QueriesToSave(StoredHistory)

\* a working store that starts empty
HistInit ==
  /\ pc = "ready"
  /\ store = NoEntry
  /\ storeFaulty = FALSE
  /\ histReturned = Undefined
  /\ histRaised = FALSE
  /\ histCalls = 0
  /\ lastSaved = <<>>
  /\ SimIdle
  /\ RelIdle
  /\ SrchIdle
  /\ AdvIdle
  /\ SugIdle
  /\ PageIdle
  /\ NumIdle
  /\ ValIdle
  /\ BlogIdle
  /\ ThemeIdle

\* a store whose operations can throw and that holds any entry
FaultyHistInit ==
  /\ pc = "ready"
  /\ store \in StoredEntries
  /\ storeFaulty = TRUE
  /\ histReturned = Undefined
  /\ histRaised = FALSE
  /\ histCalls = 0
  /\ lastSaved = <<>>
  /\ SimIdle
  /\ RelIdle
  /\ SrchIdle
  /\ AdvIdle
  /\ SugIdle
  /\ PageIdle
  /\ NumIdle
  /\ ValIdle
  /\ BlogIdle
  /\ ThemeIdle

CallSaveSearchHistory ==
  /\ pc \in HistoryCalls
  /\ pc' = "saveSearchHistory"
  /\ CountCall
  /\ \E query \in SaveChoices, getFails \in Faults, setFails \in Faults :
       LET outcome == saveSearchHistory(store, query, getFails, setFails)
       IN  /\ store' = outcome.value
           /\ histRaised' = outcome.threw
           /\ lastSaved' = <<query>>
  /\ histReturned' = Undefined
  /\ UNCHANGED <<storeFaulty, simVars, relVars, srchVars, advVars, sugVars, pageVars, numVars, valVars, blogVars, themeVars>>

CallGetSearchHistory ==
  /\ pc \in HistoryCalls
  /\ pc' = "getSearchHistory"
  /\ CountCall
  /\ \E getFails \in Faults :
       LET outcome == getSearchHistory(store, getFails)
       IN  /\ histReturned' = outcome.value
           /\ histRaised' = outcome.threw
  /\ UNCHANGED <<store, storeFaulty, lastSaved, simVars, relVars, srchVars, advVars, sugVars, pageVars, numVars, valVars, blogVars, themeVars>>

CallClearSearchHistory ==
  /\ pc \in HistoryCalls
  /\ pc' = "clearSearchHistory"
  /\ CountCall
  /\ \E removeFails \in Faults :
       LET outcome == clearSearchHistory(store, removeFails)
       IN  /\ store' = outcome.value
           /\ histRaised' = outcome.threw
  /\ histReturned' = Undefined
  /\ lastSaved' = <<>>
  /\ UNCHANGED <<storeFaulty, simVars, relVars, srchVars, advVars, sugVars, pageVars, numVars, valVars, blogVars, themeVars>>

HistNext == CallSaveSearchHistory \/ CallGetSearchHistory \/ CallClearSearchHistory

SpecHistory == HistInit /\ [][HistNext]_vars

SpecFaultyHistory == FaultyHistInit /\ [][HistNext]_vars

(***************************************************************************)
(* calculatePagination and getPaginatedPosts, each called once on an array *)
(* of posts and an options object.  A post is written as its id: the two   *)
(* functions read the length of the array and move its elements.           *)
(***************************************************************************)
MaxPagePosts == 4
MaxCurrentPage == 3
PostsPerPageValues == {1, 2, 10}
TotalPostsValues == {0, 3, 23}

PagePosts == {[i \in 1..n |-> i] : n \in 0..MaxPagePosts}

PageOptionValues ==
  [currentPage : -1..MaxCurrentPage,
   postsPerPage : PostsPerPageValues,
   totalPosts : TotalPostsValues]

\* each property is a number or absent
PageOptions ==
  {Restrict(o, S) : o \in PageOptionValues,
                    S \in SUBSET {"currentPage", "postsPerPage", "totalPosts"}}

PageInit ==
  /\ pc = "ready"
  /\ pagePosts \in PagePosts
  /\ pageOptions \in PageOptions
  /\ pageResult = <<>>
  /\ SimIdle
  /\ RelIdle
  /\ SrchIdle
  /\ AdvIdle
  /\ SugIdle
  /\ HistIdle
  /\ NumIdle
  /\ ValIdle
  /\ BlogIdle
  /\ ThemeIdle

CallCalculatePagination ==
  /\ pc = "ready"
  /\ pc' = "calculatePagination"
  /\ pageResult' = calculatePagination(pagePosts, pageOptions)
  /\ UNCHANGED <<pagePosts, pageOptions, simVars, relVars, srchVars, advVars, sugVars, histVars, numVars, valVars, blogVars, themeVars>>

CallGetPaginatedPosts ==
  /\ pc = "ready"
  /\ pc' = "getPaginatedPosts"
  /\ pageResult' = getPaginatedPosts(pagePosts, pageOptions)
  /\ UNCHANGED <<pagePosts, pageOptions, simVars, relVars, srchVars, advVars, sugVars, histVars, numVars, valVars, blogVars, themeVars>>

PageNext == CallCalculatePagination \/ CallGetPaginatedPosts

SpecPagination == PageInit /\ [][PageNext]_vars

(***************************************************************************)
(* generatePageNumbers, called once with a current page among the pages.   *)
(***************************************************************************)
MaxTotalPages == 20
MaxVisible == 8

NumInit ==
  /\ pc = "ready"
  /\ numTotalPages \in 1..MaxTotalPages
  /\ numCurrentPage \in 1..numTotalPages
  /\ numMaxVisiblePages \in 1..MaxVisible
  /\ numPages = <<>>
  /\ SimIdle
  /\ RelIdle
  /\ SrchIdle
  /\ AdvIdle
  /\ SugIdle
  /\ HistIdle
  /\ PageIdle
  /\ ValIdle
  /\ BlogIdle
  /\ ThemeIdle

CallGeneratePageNumbers ==
  /\ pc = "ready"
  /\ pc' = "generatePageNumbers"
  /\ numPages' = generatePageNumbers(numCurrentPage, numTotalPages, numMaxVisiblePages)
  /\ UNCHANGED <<numCurrentPage, numTotalPages, numMaxVisiblePages, simVars, relVars, srchVars, advVars, sugVars, histVars, pageVars, valVars, blogVars, themeVars>>

NumNext == CallGeneratePageNumbers

SpecPageNumbers == NumInit /\ [][NumNext]_vars

(***************************************************************************)
(* validatePagination, called once with any page and a number of pages.    *)
(***************************************************************************)
MaxValidatePage == 8

ValInit ==
  /\ pc = "ready"
  /\ valCurrentPage \in (-MaxValidatePage)..MaxValidatePage
  /\ valTotalPages \in 0..MaxValidatePage
  /\ valResult = <<>>
  /\ SimIdle
  /\ RelIdle
  /\ SrchIdle
  /\ AdvIdle
  /\ SugIdle
  /\ HistIdle
  /\ PageIdle
  /\ NumIdle
  /\ BlogIdle
  /\ ThemeIdle

CallValidatePagination ==
  /\ pc = "ready"
  /\ pc' = "validatePagination"
  /\ valResult' = validatePagination(valCurrentPage, valTotalPages)
  /\ UNCHANGED <<valCurrentPage, valTotalPages, simVars, relVars, srchVars, advVars, sugVars, histVars, pageVars, numVars, blogVars, themeVars>>

ValNext == CallValidatePagination

SpecValidate == ValInit /\ [][ValNext]_vars

(***************************************************************************)
(* The BlogList page after its first render, and the clicks on its         *)
(* buttons.  A disabled button takes no click; there is a page button for  *)
(* each of the pages 1..totalPages.                                        *)
(***************************************************************************)
MaxBlogPosts == 20

BlogInit ==
  /\ pc = "ready"
  /\ blogPostCount \in 0..MaxBlogPosts
  /\ blogCurrentPage = 1
  /\ SimIdle
  /\ RelIdle
  /\ SrchIdle
  /\ AdvIdle
  /\ SugIdle
  /\ HistIdle
  /\ PageIdle
  /\ NumIdle
  /\ ValIdle
  /\ ThemeIdle

ClickPrevious ==
  /\ blogCurrentPage # 1
  /\ pc' = "handlePrev"
  /\ blogCurrentPage' = handlePrev(blogCurrentPage)
  /\ UNCHANGED <<blogPostCount, simVars, relVars, srchVars, advVars, sugVars, histVars, pageVars, numVars, valVars, themeVars>>

ClickNext ==
  /\ blogCurrentPage # BlogTotalPages(blogPostCount)
  /\ pc' = "handleNext"
  /\ blogCurrentPage' = handleNext(blogCurrentPage, BlogTotalPages(blogPostCount))
  /\ UNCHANGED <<blogPostCount, simVars, relVars, srchVars, advVars, sugVars, histVars, pageVars, numVars, valVars, themeVars>>

ClickPage ==
  /\ \E page \in 1..BlogTotalPages(blogPostCount) :
       blogCurrentPage' = page
  /\ pc' = "handlePageClick"
  /\ UNCHANGED <<blogPostCount, simVars, relVars, srchVars, advVars, sugVars, histVars, pageVars, numVars, valVars, themeVars>>

BlogNext == ClickPrevious \/ ClickNext \/ ClickPage

SpecBlogList == BlogInit /\ [][BlogNext]_vars

(***************************************************************************)
(* ThemeProvider after it has mounted, with or without a theme stored by   *)
(* an earlier session, then the calls of toggleTheme and setTheme and the  *)
(* change events of the system's colour scheme.                            *)
(***************************************************************************)
Themes == {"light", "dark"}
MaxSystemChanges == 8

ThemeInit ==
  /\ pc = "ready"
  /\ themeStored \in {<<>>} \cup {<<t>> : t \in Themes}
  /\ systemDark \in BOOLEAN
  /\ theme = InitialTheme(themeStored, systemDark)
  /\ themeAttribute = theme
  /\ themeChosen = (themeStored # <<>>)
  /\ systemChanges = 0
  /\ SimIdle
  /\ RelIdle
  /\ SrchIdle
  /\ AdvIdle
  /\ SugIdle
  /\ HistIdle
  /\ PageIdle
  /\ NumIdle
  /\ ValIdle
  /\ BlogIdle

CallSetTheme ==
  /\ pc' = "setTheme"
  /\ \E newTheme \in Themes :
       LET after == setTheme(newTheme)
       IN  /\ theme' = after.theme
           /\ themeStored' = after.stored
           /\ themeAttribute' = after.attribute
  /\ themeChosen' = TRUE
  /\ UNCHANGED <<systemDark, systemChanges, simVars, relVars, srchVars, advVars, sugVars, histVars, pageVars, numVars, valVars, blogVars>>

CallToggleTheme ==
  /\ pc' = "toggleTheme"
  /\ LET after == setTheme(IF theme = "light" THEN "dark" ELSE "light")
     IN  /\ theme' = after.theme
         /\ themeStored' = after.stored
         /\ themeAttribute' = after.attribute
  /\ themeChosen' = TRUE
  /\ UNCHANGED <<systemDark, systemChanges, simVars, relVars, srchVars, advVars, sugVars, histVars, pageVars, numVars, valVars, blogVars>>

\* the system changes its colour scheme and the listener runs
SystemThemeChange ==
  /\ systemChanges < MaxSystemChanges
  /\ systemChanges' = systemChanges + 1
  /\ pc' = "handleSystemThemeChange"
  /\ systemDark' = ~systemDark
  /\ LET after == handleSystemThemeChange(
                    [theme |-> theme, stored |-> themeStored,
                     attribute |-> themeAttribute], ~systemDark)
     IN  /\ theme' = after.theme
         /\ themeStored' = after.stored
         /\ themeAttribute' = after.attribute
  /\ UNCHANGED <<themeChosen, simVars, relVars, srchVars, advVars, sugVars, histVars, pageVars, numVars, valVars, blogVars>>

ThemeNext == CallSetTheme \/ CallToggleTheme \/ SystemThemeChange

SpecTheme == ThemeInit /\ [][ThemeNext]_vars

(***************************************************************************)
(* Properties of the similarity scorer, checked under SpecSim.             *)
(***************************************************************************)
Scored == pc = "calculatePostSimilarity"

\* C3: the category, tag and content components are symmetric: each
\* component computed for (A, B) equals the one computed for (B, A), also
\* when the title and excerpt of a post repeat a word.
ComponentsSymmetric ==
  Scored =>
    /\ simFactors.category = calculateCategorySimilarity(simPostB, simPostA)
    /\ simFactors.tag = calculateTagSimilarity(simPostB, simPostA)
    /\ simFactors.content = calculateContentSimilarity(simPostB, simPostA)

\* 0.9999999999999999, the largest number below 1
JustBelowOne == <<BSub(BShl(BOne, SigBits), BOne), 0 - SigBits>>

ComponentsInUnitRange ==
  Scored =>
    /\ \A f \in {"category", "tag", "content", "author"} :
         FLeq(FZero, simFactors[f]) /\ FLeq(simFactors[f], FOne)
    /\ (simPostA.categories \o simPostB.categories = <<>>) => simFactors.category = FZero
    /\ (simPostA.tags \o simPostB.tags = <<>>) => simFactors.tag = FZero
    /\ (ContentWords(simPostA) \o ContentWords(simPostB) = <<>>)
         => simFactors.content = FZero
(***************************************************************************)
(* Properties of the related-posts selector, checked under SpecRelated.    *)
(***************************************************************************)
\* the position of a post of relAllPosts, whose ids are unique
PositionOf(post) == CHOOSE i \in DOMAIN relAllPosts : relAllPosts[i].id = post.id

ScoreOf(post) == calculatePostSimilarity(relCurrentPost, post, relConfig.algorithm)

RelatedSortedByScore ==
  pc = "findRelatedPosts" =>
    LET scores == Map(relResult, ScoreOf)
    IN  \A i, j \in DOMAIN relResult :
          i < j =>
            /\ FLeq(scores[j], scores[i])
            /\ scores[i] = scores[j]
                 => PositionOf(relResult[i]) < PositionOf(relResult[j])

\* two results tie, and a third one was moved in front of both
RelatedSortedByScoreWitness ==
  /\ pc = "findRelatedPosts"
  /\ Len(relResult) = 3
  /\ ScoreOf(relResult[2]) = ScoreOf(relResult[3])
  /\ FLess(ScoreOf(relResult[2]), ScoreOf(relResult[1]))
  /\ PositionOf(relResult[1]) = 3

\* C6: the result of getRelatedPostsWithFallback and of findRelatedPosts is
\* the same for the algorithm values category, tags and mixed: the result
\* for the algorithm of the call is the result for each of the other two.
AlgorithmIgnored ==
  /\ pc = "findRelatedPosts" =>
       \A algorithm \in Algorithms \ {relConfig.algorithm} :
         findRelatedPosts(relCurrentPost, relAllPosts,
                          [relConfig EXCEPT !.algorithm = algorithm]) = relResult
  /\ pc = "getRelatedPostsWithFallback" =>
       \A algorithm \in Algorithms \ {relConfig.algorithm} :
         getRelatedPostsWithFallback(relCurrentPost, relAllPosts,
                                     [relConfig EXCEPT !.algorithm = algorithm]) = relResult

\* the selector ran with algorithm "tags" and ranked the last post first
AlgorithmIgnoredWitness ==
  /\ pc = "getRelatedPostsWithFallback"
  /\ relConfig.algorithm = "tags"
  /\ Len(relResult) = 3
  /\ PositionOf(relResult[1]) = 3
  /\ FLess(ScoreOf(relResult[2]), ScoreOf(relResult[1]))

SearchPositionOf(post) == CHOOSE i \in DOMAIN srchPosts : srchPosts[i].id = post.id

\* the stable score-descending ranking of the posts whose score is > 0
SearchRanking ==
  StableSort(
    SelectSeq(Map(srchPosts, LAMBDA post :
                    calculateRelevance(post, srchQuery,
                                       Merge(DEFAULT_SEARCH_OPTIONS, srchOptions))),
              LAMBDA result : FLess(FZero, result.score)),
    LAMBDA a, b : FLess(a.score, b.score))

\* C7: searchPosts returns its results in non-increasing order of score,
\* and two results with equal scores are in the order their posts have in
\* the input collection.
SearchSortedByScore ==
  pc = "searchPosts" =>
    \A i, j \in DOMAIN srchResults :
      i < j =>
        /\ FLeq(srchResults[j].score, srchResults[i].score)
        /\ srchResults[i].score = srchResults[j].score
             => SearchPositionOf(srchResults[i].post) < SearchPositionOf(srchResults[j].post)

\* the second post of the collection was ranked before the first
SearchSortedByScoreWitness ==
  /\ pc = "searchPosts"
  /\ Len(srchResults) = 2
  /\ FLess(srchResults[2].score, srchResults[1].score)
  /\ SearchPositionOf(srchResults[1].post) = 2

\* C8: for a query of length >= minQueryLength and limit >= 0, searchPosts
\* returns the first limit entries of the stable score-descending ranking
\* of the posts whose score is > 0: no result has score <= 0 and there are
\* at most limit results.
SearchIsTruncatedRanking ==
  (/\ pc = "searchPosts"
   /\ Len(srchQuery) >= srchOptions.minQueryLength
   /\ srchOptions.limit >= 0)
    => /\ srchResults = Slice0(SearchRanking, srchOptions.limit)
       /\ Len(srchResults) <= srchOptions.limit
       /\ \A i \in DOMAIN srchResults : FLess(FZero, srchResults[i].score)

\* C9: searchPosts returns the empty sequence whenever the query is
\* shorter than minQueryLength, for every collection and every
\* minQueryLength.
ShortQueryYieldsNothing ==
  (pc = "searchPosts" /\ Len(srchQuery) < srchOptions.minQueryLength)
    => srchResults = <<>>

\* a query of 5 characters that matches posts was rejected for minQueryLength 6
ShortQueryYieldsNothingWitness ==
  /\ pc = "searchPosts"
  /\ srchQuery = W_react
  /\ srchOptions.minQueryLength = 6
  /\ srchOptions.limit > 0
  /\ SearchRanking # <<>>
  /\ srchResults = <<>>

\* the score calculateRelevance gave a field: that of its match, 0 without one
FieldScoreOf(result, field) ==
  IF \E k \in DOMAIN result.matches : result.matches[k].field = field
    THEN result.matches[CHOOSE k \in DOMAIN result.matches :
                          result.matches[k].field = field].score
    ELSE FZero

\* the number of query tokens that are substrings of a field value
SubstringTokens(fieldValue) ==
  Cardinality({k \in DOMAIN tokenize(srchQuery) :
                 StrIncludes(fieldValue, tokenize(srchQuery)[k])})

\* C10: with fuzzy matching disabled, every query token that is a substring
\* of a field's value scores 1 and every other token 0, times the field
\* weight, whatever fuzzyThreshold in [0, 1] is.
ExactMatchIgnoresThreshold ==
  (pc = "calculateRelevance" /\ ~srchOptions.fuzzy) =>
    \A k \in DOMAIN srchOptions.fields :
      LET field == srchOptions.fields[k]
          fieldValue == getFieldValue(srchResults[1].post, field)
      IN  fieldValue # <<>> =>
            FieldScoreOf(srchResults[1], field)
              = FMul(FInt(SubstringTokens(fieldValue)), getFieldWeight(field))

\* C11: for the query "reac", fuzzy matching enabled and fuzzyThreshold 0.6,
\* a post titled "React Basics" matches through edit-distance similarity:
\* the similarity of the title field and the token exceeds 0.6 and the
\* result carries a match record of the title field.
FuzzyPrefixMatchesTitle ==
  (/\ pc = "calculateRelevance"
   /\ srchQuery = <<"r","e","a","c">>
   /\ srchOptions.fuzzy
   /\ srchOptions.fuzzyThreshold = Threshold06
   /\ \E k \in DOMAIN srchOptions.fields : srchOptions.fields[k] = "title"
   /\ srchResults[1].post.title = W_React \o <<" ">> \o W_Basics)
    => /\ FLess(Threshold06, similarity(srchResults[1].post.title, <<"r","e","a","c">>))
       /\ \E k \in DOMAIN srchResults[1].matches :
            srchResults[1].matches[k].field = "title"

\* C12: with an empty fields list searchPosts scores the posts over the
\* default fields title, excerpt, content and tags: its results are those
\* of the same call with the fields option omitted.
EmptyFieldsAreDefaultFields ==
  (pc = "searchPosts" /\ srchOptions.fields = <<>>)
    => srchResults = searchPosts(srchPosts, srchQuery, Omit(srchOptions, "fields"))


\* C25: calculateRelevance gives every featured post a score of at least 1,
\* and searchPosts returns every featured post when the query passes the
\* length validation and the limit is not below the number of posts, also
\* when nothing else of the post scored.
FeaturedAlwaysScores ==
  /\ pc = "calculateRelevance" =>
       (srchResults[1].post.featured => FLeq(FOne, srchResults[1].score))
  /\ (/\ pc = "searchPosts"
      /\ Len(srchQuery) >= (IF srchOptions.minQueryLength # 0
                              THEN srchOptions.minQueryLength ELSE 2)
      /\ srchOptions.limit >= Len(srchPosts)) =>
       \A i \in DOMAIN srchPosts :
         srchPosts[i].featured =>
           \E k \in DOMAIN srchResults :
             /\ srchResults[k].post = srchPosts[i]
             /\ FLeq(FOne, srchResults[k].score)

\* a featured post was returned with no match and no title boost: its score
\* is the featured boost alone
FeaturedAlwaysScoresWitness ==
  /\ pc = "searchPosts"
  /\ \E k \in DOMAIN srchResults :
       /\ srchResults[k].post.featured
       /\ srchResults[k].matches = <<>>
       /\ srchResults[k].score = FOne

(***************************************************************************)
(* Properties of advancedSearch, checked under SpecAdvanced.               *)
(***************************************************************************)
\* the post satisfies every criterion that is supplied: a string criterion
\* is supplied when it is present and not empty, featured and the bounds of
\* the date range when they are present
SatisfiesCriteria(post) ==
  /\ Given(advCriteria, "category") =>
       \E i \in DOMAIN post.categories :
         \/ post.categories[i].slug = advCriteria.category
         \/ toLowerCase(post.categories[i].name) = toLowerCase(advCriteria.category)
  /\ Given(advCriteria, "tag") =>
       toLowerCase(advCriteria.tag) \in {toLowerCase(post.tags[i]) : i \in DOMAIN post.tags}
  /\ Given(advCriteria, "author") =>
       \/ post.author.slug = advCriteria.author
       \/ StrIncludes(toLowerCase(post.author.name), toLowerCase(advCriteria.author))
  /\ "featured" \in DOMAIN advCriteria => post.featured = advCriteria.featured
  /\ "dateRange" \in DOMAIN advCriteria =>
       /\ "start" \in DOMAIN advCriteria.dateRange =>
            DateGetTime(advCriteria.dateRange.start) <= DateGetTime(post.publishedAt)
       /\ "end" \in DOMAIN advCriteria.dateRange =>
            DateGetTime(post.publishedAt) <= DateGetTime(advCriteria.dateRange.end)

\* C13: without a text query advancedSearch returns exactly the posts that
\* satisfy every supplied criterion (category by slug or name, tag, author
\* by name substring or slug, featured flag, publication date within the
\* inclusive bounds), in their order in the collection; a criterion that is
\* not supplied excludes no post.
AdvancedSearchFilters ==
  (pc = "advancedSearch" /\ ~Given(advCriteria, "query")) =>
    /\ advResult = SelectSeq(advPosts, SatisfiesCriteria)
    /\ (\A key \in DOMAIN advCriteria : key = "category" /\ advCriteria[key] = <<>>)
         => advResult = advPosts

\* of two posts the filters kept one, with featured = false, a category and
\* both bounds of the date range supplied
AdvancedSearchFiltersWitness ==
  /\ pc = "advancedSearch"
  /\ DOMAIN advCriteria = {"category", "featured", "dateRange"}
  /\ advCriteria.category = <<"f","e">>
  /\ ~advCriteria.featured
  /\ DOMAIN advCriteria.dateRange = {"start", "end"}
  /\ Len(advPosts) = 2
  /\ Len(advResult) = 1
  /\ advResult[1] = advPosts[1]

(***************************************************************************)
(* Properties of getSearchSuggestions, checked under SpecSuggest.          *)
(***************************************************************************)
\* the titles, then the tags, then the category names of the collection,
\* each group in collection order
SuggestCandidates ==
  PostTitles(sugPosts) \o PostTags(sugPosts) \o PostCategoryNames(sugPosts)

\* the string contains the query, case ignored
MatchesQuery(value) == StrIncludes(toLowerCase(value), toLowerCase(sugQuery))

\* where a string stands first among the candidates
FirstCandidate(value) ==
  CHOOSE k \in DOMAIN SuggestCandidates :
    /\ SuggestCandidates[k] = value
    /\ \A n \in 1..(k - 1) : SuggestCandidates[n] # value

\* C14: getSearchSuggestions returns no string twice, only titles, tags and
\* category names that contain the query, the matching titles before the
\* matching tags and these before the matching category names, each group
\* in collection order (a string of two groups counts for the first), never
\* more than maxSuggestions strings, all matching strings when they are
\* fewer, and the empty sequence when query.length < 2.
SuggestionsOrdered ==
  pc = "getSearchSuggestions" =>
    /\ \A i, j \in DOMAIN sugResult : i # j => sugResult[i] # sugResult[j]
    /\ \A i \in DOMAIN sugResult :
         Includes(SuggestCandidates, sugResult[i]) /\ MatchesQuery(sugResult[i])
    /\ \A i, j \in DOMAIN sugResult :
         i < j => FirstCandidate(sugResult[i]) < FirstCandidate(sugResult[j])
    /\ Len(sugResult) <= sugMax
    /\ (Len(sugResult) < sugMax /\ Len(sugQuery) >= 2) =>
         \A k \in DOMAIN SuggestCandidates :
           MatchesQuery(SuggestCandidates[k]) => Includes(sugResult, SuggestCandidates[k])
    /\ Len(sugQuery) < 2 => sugResult = <<>>

\* a title, a tag and a category name were suggested in this order, and a
\* matching string that the collection holds twice was suggested once
SuggestionsOrderedWitness ==
  /\ pc = "getSearchSuggestions"
  /\ Len(sugResult) = 3
  /\ sugResult[1] = sugPosts[1].title
  /\ Includes(PostTags(sugPosts), sugResult[2])
  /\ ~Includes(PostTitles(sugPosts), sugResult[2])
  /\ Includes(PostCategoryNames(sugPosts), sugResult[3])
  /\ \E k, n \in DOMAIN SuggestCandidates :
       /\ k < n
       /\ SuggestCandidates[k] = SuggestCandidates[n]
       /\ MatchesQuery(SuggestCandidates[k])

(***************************************************************************)
(* Properties of the search history, checked under SpecHistory and         *)
(* SpecFaultyHistory.                                                      *)
(***************************************************************************)
\* the value is an array of strings
IsStringList(value) ==
  /\ value.type = "array"
  /\ \A i \in DOMAIN value.value : value.value[i].type = "string"

\* the store holds nothing, or the text of a list of at most 10 distinct
\* strings that begins with the query saved last; it holds no query when
\* none was saved since the last clearSearchHistory
IsHistory(parsed) ==
  /\ store.present =>
       /\ parsed.ok
       /\ IsStringList(parsed.value)
       /\ store.value = JSONStringify(StringsOf(parsed.value))
       /\ Len(parsed.value.value) <= 10
       /\ \A i, j \in DOMAIN parsed.value.value :
            i # j => parsed.value.value[i] # parsed.value.value[j]
       /\ parsed.value.value # <<>>
       /\ lastSaved = <<parsed.value.value[1].value>>
  /\ ~store.present => lastSaved = <<>>

\* C15: after any sequence of saveSearchHistory and clearSearchHistory
\* calls on a working store that starts empty, the stored history holds at
\* most 10 queries and no query twice, and its first entry is the query of
\* the latest saveSearchHistory since the last clearSearchHistory; without
\* such a save the history is empty.
HistoryCappedAndDistinct == IsHistory(JSONParse(store.value))

\* the history holds 10 queries, the first query saved has been dropped
\* for the eleventh, and the oldest one held has a quote in it
HistoryCappedAndDistinctWitness ==
  /\ pc = "saveSearchHistory"
  /\ lastSaved = <<HistoryQueries[11]>>
  /\ store = Entry(JSONStringify([i \in 1..10 |-> HistoryQueries[12 - i]]))

\* C16: no call on the search history throws; getSearchHistory returns a
\* list of strings, the stored list or the empty list when the entry is
\* absent, unreadable or not a stored list; and a save whose write fails
\* leaves the entry of the store as it was.
HistoryFailuresContained ==
  /\ ~histRaised
  /\ pc = "getSearchHistory" =>
       /\ IsStringList(histReturned)
       /\ histReturned.value # <<>> =>
            [i \in DOMAIN histReturned.value |-> histReturned.value[i].value] = StoredHistory
  /\ \A query \in SaveChoices, getFails \in BOOLEAN :
       saveSearchHistory(store, query, getFails, TRUE).value = store

\* C26: on a store whose operations may fail, the query of the latest save,
\* once it is in the stored history, is still there after the next call
\* unless that call is clearSearchHistory: one more query does not fill the
\* history, and a failing operation does not drop a query.
SavedQueryKept ==
  [][(/\ pc' # "clearSearchHistory"
      /\ lastSaved # <<>>
      /\ Includes(StoredHistory, lastSaved[1]))
       => Includes(StringsOf(getSearchHistory(store', FALSE).value), lastSaved[1])]_vars

(***************************************************************************)
(* calculatePagination and getPaginatedPosts                               *)
(***************************************************************************)
\* the least number of pages of postsPerPage posts that hold totalPosts posts
PagesFor(totalPosts, postsPerPage) ==
  CHOOSE n \in 0..totalPosts :
    n * postsPerPage >= totalPosts /\ (n - 1) * postsPerPage < totalPosts

\* the options of the call with the defaults for the absent ones
PageOption(key) ==
  IF key \in DOMAIN pageOptions THEN pageOptions[key]
  ELSE DEFAULT_PAGINATION_OPTIONS[key]

\* C17: when a total number of posts is passed to calculatePagination, the
\* returned totalPosts is that number and totalPages is the ceiling of
\* totalPosts / postsPerPage; for 23 posts, page 3 and 10 posts a page there
\* are 3 pages, no next page and a previous page.
PassedTotalPostsReturned ==
  (pc = "calculatePagination" /\ "totalPosts" \in DOMAIN pageOptions) =>
    /\ pageResult.totalPosts = pageOptions.totalPosts
    /\ pageResult.totalPages
         = PagesFor(pageOptions.totalPosts, PageOption("postsPerPage"))
    /\ (/\ pageOptions.totalPosts = 23
        /\ PageOption("currentPage") = 3
        /\ PageOption("postsPerPage") = 10)
         => (/\ pageResult.totalPages = 3
             /\ ~pageResult.hasNextPage
             /\ pageResult.hasPreviousPage)

\* the posts at the zero-based positions from..(to - 1) that exist
PostsAt(posts, from, to) ==
  LET first == IF from < 0 THEN 0 ELSE from
      last == IF to > Len(posts) THEN Len(posts) ELSE to
  IN  [i \in 1..(last - first) |-> posts[first + i]]

\* C18: getPaginatedPosts returns the posts at the zero-based positions from
\* (currentPage - 1) * postsPerPage up to but excluding
\* currentPage * postsPerPage that exist, and no post for a page before the
\* first or after the last.
PageSliceWithinPage ==
  pc = "getPaginatedPosts" =>
    /\ pageResult
         = PostsAt(pagePosts,
                   (PageOption("currentPage") - 1) * PageOption("postsPerPage"),
                   PageOption("currentPage") * PageOption("postsPerPage"))
    /\ (\/ PageOption("currentPage") < 1
        \/ PageOption("currentPage")
             > PagesFor(Len(pagePosts), PageOption("postsPerPage")))
         => pageResult = <<>>

(***************************************************************************)
(* generatePageNumbers                                                     *)
(***************************************************************************)
\* C19: for more than one page generatePageNumbers returns page numbers that
\* start with 1, end with totalPages and have no two ellipses next to each
\* other.
PageNumbersFramed ==
  (pc = "generatePageNumbers" /\ numTotalPages > 1) =>
    /\ numPages # <<>>
    /\ numPages[1] = 1
    /\ numPages[Len(numPages)] = numTotalPages
    /\ \A i \in 1..(Len(numPages) - 1) :
         ~(numPages[i] = Ellipsis /\ numPages[i + 1] = Ellipsis)

\* the call returned an ellipsis on each side of some pages around the
\* current one
PageNumbersFramedWitness ==
  /\ pc = "generatePageNumbers"
  /\ numTotalPages > numMaxVisiblePages
  /\ \E i, j \in 1..Len(numPages) :
       /\ i + 1 < j
       /\ numPages[i] = Ellipsis
       /\ numPages[j] = Ellipsis
       /\ \E k \in (i + 1)..(j - 1) : numPages[k] = numCurrentPage

\* C20: for more pages than maxVisiblePages, two page numbers that follow
\* each other in the result of generatePageNumbers are consecutive pages: a
\* skipped page has an ellipsis in its place.
GapsHaveEllipsis ==
  (pc = "generatePageNumbers" /\ numTotalPages > numMaxVisiblePages) =>
    \A i \in 1..(Len(numPages) - 1) :
      (numPages[i] # Ellipsis /\ numPages[i + 1] # Ellipsis)
        => numPages[i + 1] <= numPages[i] + 1

\* the number of page numbers among the entries of pages
PageCount(pages) == Cardinality({i \in DOMAIN pages : pages[i] # Ellipsis})

\* C21: for more pages than maxVisiblePages, generatePageNumbers shows the
\* same number of page numbers for every current page among the pages.
VisibleCountPreserved ==
  (pc = "generatePageNumbers" /\ numTotalPages > numMaxVisiblePages) =>
    \A currentPage \in 1..numTotalPages :
      PageCount(generatePageNumbers(currentPage, numTotalPages, numMaxVisiblePages))
        = PageCount(numPages)

\* the positions of the ellipses in pages
EllipsisPositions(pages) == {i \in DOMAIN pages : pages[i] = Ellipsis}

\* C22: generatePageNumbers(10, 20, 7) begins with 1 and an ellipsis, ends
\* with an ellipsis and 20, and has between its two ellipses 3 to 5
\* consecutive pages with 10 among them.
ScenarioWindowAroundTen ==
  (/\ pc = "generatePageNumbers"
   /\ numCurrentPage = 10
   /\ numTotalPages = 20
   /\ numMaxVisiblePages = 7) =>
    LET n == Len(numPages)
    IN  /\ n >= 4
        /\ numPages[1] = 1
        /\ numPages[n] = 20
        /\ EllipsisPositions(numPages) = {2, n - 1}
        /\ n - 4 \in 3..5
        /\ \A i \in 3..(n - 3) : numPages[i + 1] = numPages[i] + 1
        /\ \E i \in 3..(n - 2) : numPages[i] = 10

\* C27: for more pages than maxVisiblePages, the page numbers before and
\* after every ellipsis that generatePageNumbers returns differ by more than
\* 1: an ellipsis stands only where a page is skipped.
EllipsisOnlyAtGaps ==
  (pc = "generatePageNumbers" /\ numTotalPages > numMaxVisiblePages) =>
    \A i \in EllipsisPositions(numPages) :
      /\ i - 1 \in DOMAIN numPages \ EllipsisPositions(numPages)
      /\ i + 1 \in DOMAIN numPages \ EllipsisPositions(numPages)
      /\ numPages[i + 1] - numPages[i - 1] > 1

\* the page numbers of pages in their order, without the ellipses
PageNumbersOf(pages) == SelectSeq(pages, LAMBDA page : page # Ellipsis)

\* C28: the page numbers generatePageNumbers returns are strictly increasing,
\* lie in 1..totalPages and include the current page.
PageNumbersIncreasingWithCurrent ==
  pc = "generatePageNumbers" =>
    LET shown == PageNumbersOf(numPages)
    IN  /\ \A i \in 1..(Len(shown) - 1) : shown[i] < shown[i + 1]
        /\ \A i \in DOMAIN shown : shown[i] \in 1..numTotalPages
        /\ \E i \in DOMAIN shown : shown[i] = numCurrentPage

(***************************************************************************)
(* validatePagination                                                      *)
(***************************************************************************)
\* C23: validatePagination returns invalid with correctedPage 1 for a page
\* below 1, invalid with correctedPage totalPages for a page above
\* totalPages > 0, and valid with no correctedPage otherwise; the corrected
\* page is valid for the same totalPages >= 1.
ValidationCorrects ==
  pc = "validatePagination" =>
    /\ valCurrentPage < 1 =>
         valResult = [isValid |-> FALSE, correctedPage |-> 1]
    /\ (valCurrentPage >= 1 /\ valCurrentPage > valTotalPages /\ valTotalPages > 0) =>
         valResult = [isValid |-> FALSE, correctedPage |-> valTotalPages]
    /\ (valCurrentPage >= 1 /\ ~(valCurrentPage > valTotalPages /\ valTotalPages > 0)) =>
         valResult = [isValid |-> TRUE]
    /\ ("correctedPage" \in DOMAIN valResult /\ valTotalPages >= 1) =>
         validatePagination(valResult.correctedPage, valTotalPages) = [isValid |-> TRUE]

\* a page after the last of several was corrected to the last
ValidationCorrectsWitness ==
  /\ pc = "validatePagination"
  /\ valTotalPages > 1
  /\ valCurrentPage > valTotalPages
  /\ valResult = [isValid |-> FALSE, correctedPage |-> valTotalPages]

(***************************************************************************)
(* The BlogList page and ThemeProvider                                     *)
(***************************************************************************)
\* C29: after any clicks on Previous, Next and the page buttons, for any
\* number of posts, currentPage is at least 1 and at most the larger of 1
\* and totalPages.
CurrentPageWithinPages ==
  /\ blogCurrentPage >= 1
  /\ blogCurrentPage <= (IF BlogTotalPages(blogPostCount) > 1
                           THEN BlogTotalPages(blogPostCount) ELSE 1)

\* C30: while the user has not chosen a theme, every change event of the
\* system sets the theme to the system's; once the user has chosen one, a
\* change event leaves the theme as it is.
SystemThemeFollowedUntilChosen ==
  [][pc' = "handleSystemThemeChange" /\ systemChanges' # systemChanges =>
       IF themeChosen THEN theme' = theme
       ELSE theme' = SystemTheme(systemDark')]_vars

=========================================================================
